---- MODULE Spec2Model ----
(***************************************************************************)
(* hisui: composition of recorded archives into one WebM/MP4 file.         *)
(*                                                                         *)
(* Part 1 models Muxer::mux() (src/src/muxer/muxer.cpp) together with the   *)
(* two producer threads it launches and the caller that runs it            *)
(* (src/src/layout/compose.cpp).                                            *)
(* Part 2 models the trim planning of hisui::layout::Metadata::prepare()   *)
(* (src/src/layout/metadata.cpp).                                           *)
(***************************************************************************)
EXTENDS Integers, Sequences, FiniteSets, TLC

\* ------------------------------------------------------------------ bounds
\* frames each producer has to push in one run
MaxFrames == 2
\* largest frame timestamp (track units)
MaxTs == 2
\* frames the encoder may still emit from flush()
MaxFlush == 1
\* frames each producer has to push in a run checked for liveness
MaxLiveFrames == 1
\* the timestamps of the frames in the liveness runs are 0..MaxLiveTs
MaxLiveTs == 1
\* source intervals lie in [0, MaxTime]
MaxTime == 4
\* sources of one layout, audio and video together
MaxSources == 3
\* regions of one layout
MaxRegions == 1
\* cells of a region
MaxCells == 3
\* video sources of a region whose cells are followed over time
MaxVideoSources == 2
\* the encoding intervals of those sources lie in [0, MaxTick]
MaxTick == 3
\* the requested width and height of the output are at most MaxResolution
MaxResolution == 23
\* images of one call of produce()
MaxImages == 3
\* the output lasts at most MaxDuration seconds
MaxDuration == 10
\* the encoder skips at most MaxSkips images of one run
MaxSkips == 1
\* frame timestamps of a media are at most MaxFrameTs; requests and the
\* duration are at most MaxFrameTs + 1
MaxFrameTs == 4
\* a media has at most MaxMediaFrames frames
MaxMediaFrames == 3
\* a decoder gives a picture at most MaxLatency frames late
MaxLatency == 1
\* the intervals of a sequencer end at MaxSequencerTime at the latest
MaxSequencerTime == 3
\* a sequencer has at most MaxSlots slots of at most MaxSlotEntries entries
MaxSlots == 1
MaxSlotEntries == 2
\* max_columns and max_rows of a region are at most MaxGridLimit
MaxGridLimit == 3
\* video sources of a region whose grid is computed
MaxGridSources == 5
\* cells_excluded of that region lists indices up to MaxExcludedIndex
MaxExcludedIndex == 1

\* ------------------------------------------------------- program constants
\* MP4 track timescales (WebM uses the same timescale for both tracks)
AudioTimescale == 48000
VideoTimescale == 16000
EXIT_SUCCESS == 0
EXIT_FAILURE == 1
NANO_SECOND == 1000000000

VARIABLES
  \* --- audio producer (AudioProducer: m_buffer, m_is_finished, its thread)
  a_src,          \* the frames (timestamps) produce() will push, in push order
  a_n,            \* how many of them have been pushed
  a_buf,          \* m_buffer
  a_fin,          \* m_is_finished
  a_pc,           \* "start" | "loop" | "finished" | "caught" | "returned" | "threw"
  \* --- video producer (VideoProducer)
  v_src, v_n, v_buf, v_fin, v_pc,
  no_video,       \* the video producer is a NoVideoProducer
  \* --- Muxer::mux()
  pc,             \* position of the muxer thread
  video_finished, \* local of mux()
  audio_front,    \* local: std::optional<Frame>, <<>> or <<ts>>
  video_front,
  ratio,          \* m_timescale_ratio = <<num, den>>
  log,            \* what the container and the futures have seen, in order
  \* --- caller
  cleanups,       \* calls of muxer->cleanUp()
  cleanup_threw,  \* cleanUp() itself threw
  exit_code,      \* NotExited while running, else the value compose() returned
  \* --- hisui::layout::Metadata
  m_audio_sources,       \* the intervals of the audio sources
  m_regions,             \* per region the intervals of its video sources
  m_trim,                \* "trim" of the layout
  plan_pc,               \* "parsed" | "prepared"
  audio_overlap_result,  \* local of prepare()
  list_of_trim_intervals,
  overlap_trim_intervals_result,
  trim_intervals,        \* the trim list prepare() applies
  m_audio_max_end_time,
  m_max_end_time,
  trimmed_audio_sources, \* per audio source its interval after the trims
  trimmed_regions,       \* per region its sources and end after the trims
  m_resolution,          \* [width, height] of the output
  m_bitrate,
  \* --- hisui::layout::Region and its cells
  m_cells,               \* the cells of the region, by index from 0
  m_cells_excluded,      \* "cells_excluded" of the region
  m_reuse,               \* "None" | "ShowOldest" | "ShowNewest"
  m_video_sources,       \* the encoding intervals of the sources, by index
  tick,                  \* the next output time to compose
  step,                  \* the time between two output images
  sequence,              \* the entries <<cell, source, interval>> made so far
  history,               \* the cells that have been given a source
  \* --- calc_grid_dimension for a region
  grid_params,           \* max_columns, max_rows, sources, cells_excluded
  grid_result,           \* status "none" | "ok" | "rejected", columns, rows
  \* --- a layout video producer, produce()
  m_frame_rate,          \* <<numerator, denominator>>
  max_time,              \* local of produce()
  loop_t,                \* t of the loop of produce()
  images,                \* the times of the images given to the encoder
  flushed,               \* the encoder has been flushed in this call
  m_is_finished,
  m_buffer,              \* the queue: per encoded frame the time of its image
  encoder_pending,       \* the frames the encoder holds back until flush
  produce_pc,            \* "idle" | "loop" | "returned" | "returned_at_once" | "threw"
  \* --- a layout video producer with its BufferOpenH264Encoder
  m_duration,            \* the duration of the output in seconds
  m_fps,                 \* <<numerator, denominator>> of the encoder
  enc_t,                 \* t of the loop of produce(), as <<seconds, nanoseconds>>
  m_frame,               \* the images given to the encoder so far
  frames_out,            \* the frames the encoder has pushed to the queue
  last_pts,              \* the timestamp of the newest frame, as <<seconds, nanoseconds>>
  encode_pc,             \* "none" | "loop" | "finished"
  \* --- a video decoder (VPLDecoder, AV1Decoder) on one media
  decoder_kind,          \* "VPL" | "AV1"
  webm_frames,           \* m_webm: the timestamps of the frames of the media, in order
  decoder_latency,       \* the decoder gives the picture of the frame read this many frames before
  decoder_duration,      \* m_duration of the decoder
  webm_position,         \* the frames readFrame() has read
  m_current_timestamp,   \* of the decoder
  m_next_timestamp,      \* of the decoder
  m_current_yuv_image,   \* Black, or k for the picture of frame k of the media
  m_next_yuv_image,      \* of VPLDecoder
  m_is_time_over,        \* a request at or after m_duration has been seen
  m_finished_webm,       \* readFrame() has returned false
  request,               \* the timestamp of the newest getImage()
  returned_image,        \* what the newest getImage() returned
  decoder_pc,            \* "none" | "new" | "constructed" | "returned"
  \* --- hisui::video::BasicSequencer
  m_sequence,            \* per slot the entries [source, lower, upper] of BasicSequencer
  yuvs,                  \* per slot the image of the newest getYUVs()
  sequencer_timestamp,   \* the timestamp of the newest getYUVs()
  sequencer_pc,          \* "none" | "constructed" | "returned"
  \* --- main() and hisui::layout::compose()
  config,                \* hisui::Config after the command line, with the build flag USE_ONEVPL and the codec of the inputs
  codec_support,         \* what an open VPL session can do: encode H.264, decode H.264
  main_pc,               \* position of main() and compose()
  vpl_instance,          \* VPLSession::hasInstance()
  openh264_instance,     \* OpenH264Handler::hasInstance()
  opened,                \* the handles that have been opened
  events,                \* the steps that have been taken, in order
  ret,                   \* what compose() returned, NotExited before
  failed_step,           \* the step that failed, "none" if no step failed
  codec_missing,         \* the failure was a codec that is not available
  main_status,           \* the exit status of the process, NotExited while it runs
  \* --- AsyncWebMMuxer::setUp and the audio track
  awm_pc,                \* position of the AsyncWebMMuxer: "constructed", "ready" after setUp(), "running", "finished", "failed"
  awm_audio_only,        \* m_config.audio_only
  opus_skip,             \* what OpusAudioProducer::getSkip() reports, NoSkip before the producer is made
  audio_tracks,          \* the calls of setAudioTrack: <<codec_delay, skip of the private data>>, in order
  video_tracks,          \* the number of calls of setVideoTrack
  audio_frames_added,    \* the number of calls of addAudioFrame
  \* --- the regions of a layout in z order
  layout_regions,        \* m_regions of the layout as <<name, z_pos>>, in the order of the layout file, then as prepare() leaves them
  zsort_pc,              \* "parsed" before prepare() sorts the regions, "prepared" after
  \* --- cells driven through the public functions of Cell
  api_cells,             \* cells driven through the public functions of Cell, by index
  api_before,            \* api_cells as they were before the last call
  api_call,              \* the last call and its arguments, <<"Cell">> after construction
  \* --- the frames a muxer takes from the producers' queues
  ap_container,          \* "WebM" or "MP4", "none" when there is no muxer
  m_chunk_interval,      \* MP4Muxer::m_chunk_interval in milliseconds, 0 for WebM
  ap_pushed,             \* per kind the frames [kind, id, timestamp] the producer has pushed, in order
  ap_queue,              \* per kind the producer's m_buffer
  ap_front,              \* the copy bufferFront() returned to the muxer, <<>> when it holds none
  ap_pc,                 \* position of the muxer: "idle", "peeked", "written", "released", "buffered", "finalized"
  ap_tracks,             \* per kind the chunks given to the container, the last one open
  ap_buffer,             \* per kind MP4Muxer::m_audio_buffer / m_video_buffer
  m_chunk_start,         \* MP4Muxer::m_chunk_start
  ap_released,           \* the frames whose data was given to delete[], in order
  \* --- VPLSession::open and close
  session_instance,      \* VPLSession::m_instance: {} for nullptr, else {the session it points to}
  session_deletes,       \* for every VPLSession made by open(), in order, how often it was deleted
  session_call           \* the last call of open() or close(), what failed in it and whether there was an instance before

audioVars == <<a_src, a_n, a_buf, a_fin, a_pc>>
videoVars == <<v_src, v_n, v_buf, v_fin, v_pc, no_video>>
localVars == <<video_finished, audio_front, video_front>>
callerVars == <<cleanups, cleanup_threw, exit_code>>
muxVars == <<audioVars, videoVars, pc, localVars, ratio, log, callerVars>>

planVars == <<m_audio_sources, m_regions, m_trim, plan_pc, audio_overlap_result,
              list_of_trim_intervals, overlap_trim_intervals_result,
              trim_intervals, m_audio_max_end_time, m_max_end_time,
              trimmed_audio_sources, trimmed_regions, m_resolution, m_bitrate>>

regionVars == <<m_cells, m_cells_excluded, m_reuse, m_video_sources, tick, step, sequence, history>>

gridVars == <<grid_params, grid_result>>

produceVars == <<m_frame_rate, max_time, loop_t, images, flushed, m_is_finished,
                 m_buffer, encoder_pending, produce_pc>>

encodeVars == <<m_duration, m_fps, enc_t, m_frame, frames_out, last_pts, encode_pc>>

decoderVars == <<decoder_kind, webm_frames, decoder_latency, decoder_duration, webm_position, m_current_timestamp, m_next_timestamp, m_current_yuv_image, m_next_yuv_image, m_is_time_over, m_finished_webm, request, returned_image, decoder_pc>>

sequencerVars == <<m_sequence, yuvs, sequencer_timestamp, sequencer_pc>>

mainVars == <<config, codec_support, main_pc, vpl_instance, openh264_instance, opened, events, ret, failed_step, codec_missing, main_status>>

webmVars == <<awm_pc, awm_audio_only, opus_skip, audio_tracks, video_tracks, audio_frames_added>>

zsortVars == <<layout_regions, zsort_pc>>

cellapiVars == <<api_cells, api_before, api_call>>

appendVars == <<ap_container, m_chunk_interval, ap_pushed, ap_queue, ap_front, ap_pc, ap_tracks, ap_buffer, m_chunk_start, ap_released>>

sessionVars == <<session_instance, session_deletes, session_call>>

nonMuxVars == <<planVars, regionVars, gridVars, produceVars, encodeVars, decoderVars, sequencerVars, mainVars, webmVars, zsortVars, cellapiVars, appendVars, sessionVars>>
nonPlanVars == <<muxVars, regionVars, gridVars, produceVars, encodeVars, decoderVars, sequencerVars, mainVars, webmVars, zsortVars, cellapiVars, appendVars, sessionVars>>
nonRegionVars == <<muxVars, planVars, gridVars, produceVars, encodeVars, decoderVars, sequencerVars, mainVars, webmVars, zsortVars, cellapiVars, appendVars, sessionVars>>
nonGridVars == <<muxVars, planVars, regionVars, produceVars, encodeVars, decoderVars, sequencerVars, mainVars, webmVars, zsortVars, cellapiVars, appendVars, sessionVars>>
nonProduceVars == <<muxVars, planVars, regionVars, gridVars, encodeVars, decoderVars, sequencerVars, mainVars, webmVars, zsortVars, cellapiVars, appendVars, sessionVars>>

nonEncodeVars == <<muxVars, planVars, regionVars, gridVars, produceVars, decoderVars, sequencerVars, mainVars, webmVars, zsortVars, cellapiVars, appendVars, sessionVars>>

nonDecoderVars == <<muxVars, planVars, regionVars, gridVars, produceVars, encodeVars, sequencerVars, mainVars, webmVars, zsortVars, cellapiVars, appendVars, sessionVars>>

nonSequencerVars == <<muxVars, planVars, regionVars, gridVars, produceVars, encodeVars, decoderVars, mainVars, webmVars, zsortVars, cellapiVars, appendVars, sessionVars>>

nonMainVars == <<muxVars, planVars, regionVars, gridVars, produceVars, encodeVars, decoderVars, sequencerVars, webmVars, zsortVars, cellapiVars, appendVars, sessionVars>>

nonWebmVars == <<muxVars, planVars, regionVars, gridVars, produceVars, encodeVars, decoderVars, sequencerVars, mainVars, zsortVars, cellapiVars, appendVars, sessionVars>>

nonZsortVars == <<muxVars, planVars, regionVars, gridVars, produceVars, encodeVars, decoderVars, sequencerVars, mainVars, webmVars, cellapiVars, appendVars, sessionVars>>

nonCellapiVars == <<muxVars, planVars, regionVars, gridVars, produceVars, encodeVars, decoderVars, sequencerVars, mainVars, webmVars, zsortVars, appendVars, sessionVars>>

nonAppendVars == <<muxVars, planVars, regionVars, gridVars, produceVars, encodeVars, decoderVars, sequencerVars, mainVars, webmVars, zsortVars, cellapiVars, sessionVars>>

nonSessionVars == <<muxVars, planVars, regionVars, gridVars, produceVars, encodeVars, decoderVars, sequencerVars, mainVars, webmVars, zsortVars, cellapiVars, appendVars>>

vars == <<muxVars, planVars, regionVars, gridVars, produceVars, encodeVars, decoderVars, sequencerVars, mainVars, webmVars, zsortVars, cellapiVars, appendVars, sessionVars>>

\* ------------------------------------------------------------------ helpers
RECURSIVE SeqsUpTo(_, _)
\* all sequences over S of length <= n
SeqsUpTo(S, n) ==
  IF n = 0 THEN {<<>>}
  ELSE LET shorter == SeqsUpTo(S, n - 1)
       IN shorter \cup {Append(s, x) : s \in shorter, x \in S}

NonDecreasing(s) == \A i \in 1..(Len(s) - 1) : s[i] <= s[i + 1]

\* the frame streams a producer can emit: timestamps never go back
StreamsUpTo(n) == {s \in SeqsUpTo(0..MaxTs, n) : NonDecreasing(s)}
FrameStreams == StreamsUpTo(MaxFrames)
LiveFrameStreams == {s \in StreamsUpTo(MaxLiveFrames) : \A k \in 1..Len(s) : s[k] <= MaxLiveTs}

\* boost::rational normalises 48000/16000 to 3/1
RECURSIVE Gcd(_, _)
Gcd(a, b) == IF b = 0 THEN a ELSE Gcd(b, a % b)
Rational(n, d) == <<n \div Gcd(n, d), d \div Gcd(n, d)>>

\* ------------------------------------------------- producer interface
\* VideoProducer::isFinished / AudioProducer::isFinished
isFinished(fin, buf) == fin /\ buf = <<>>

\* bufferFront(): std::optional<Frame>
bufferFront(buf) == IF buf = <<>> THEN <<>> ELSE <<Head(buf)>>

\* bufferPop()
bufferPop(buf) == Tail(buf)

has_value(opt) == opt # <<>>
value(opt) == opt[1]

\* ------------------------------------------------------------ initial state
\* no exit status yet: compose() has not returned
NotExited == -1

\* no Opus audio producer has been made
NoSkip == -1

\* m_timescale_ratio: 1 unless a muxer assigns audio timescale / video timescale
TimescaleRatios == {Rational(1, 1), Rational(AudioTimescale, VideoTimescale)}

\* mutant: the constructor leaves m_is_finished false
NoVideoProducer_NotFinished == v_src = <<>> /\ v_fin = FALSE

\* NoVideoProducer::NoVideoProducer(): nothing to push, m_is_finished = true
NoVideoProducer == v_src = <<>> /\ v_fin = TRUE

\* Muxer::mux() has been entered and both futures are launched (std::async)
MuxInitFor(streams) ==
  /\ a_src \in streams
  /\ a_n = 0 /\ a_buf = <<>> /\ a_fin = FALSE /\ a_pc = "loop"
  /\ no_video \in BOOLEAN
  /\ IF no_video THEN NoVideoProducer
                 ELSE v_src \in streams /\ v_fin = FALSE
  /\ v_n = 0 /\ v_buf = <<>>
  /\ v_pc = "start"
  /\ pc = "L40"
  /\ video_finished = FALSE
  /\ audio_front = <<>> /\ video_front = <<>>
  /\ ratio \in TimescaleRatios
  /\ log = <<>>
  /\ cleanups = 0 /\ cleanup_threw = FALSE /\ exit_code = NotExited

\* no layout is being planned
PlanIdle ==
  /\ m_audio_sources = {} /\ m_regions = <<>> /\ m_trim = TRUE
  /\ plan_pc = "idle"
  /\ audio_overlap_result = <<>> /\ list_of_trim_intervals = <<>>
  /\ overlap_trim_intervals_result = <<>> /\ trim_intervals = <<>>
  /\ m_audio_max_end_time = 0 /\ m_max_end_time = 0
  /\ trimmed_audio_sources = <<>> /\ trimmed_regions = <<>>
  /\ m_resolution = [width |-> 0, height |-> 0] /\ m_bitrate = 0

\* no region is being composed
RegionIdle ==
  /\ m_cells = <<>> /\ m_cells_excluded = {}
  /\ m_reuse = "None" /\ m_video_sources = <<>>
  /\ tick = 0 /\ step = 1 /\ sequence = <<>> /\ history = {}

\* no grid is being computed
GridIdle ==
  /\ grid_params = [max_columns |-> 0, max_rows |-> 0,
                    number_of_sources |-> 0, cells_excluded |-> {}]
  /\ grid_result = [status |-> "none", columns |-> 0, rows |-> 0]

\* no layout video producer exists
ProduceIdle ==
  /\ m_frame_rate = <<1, 1>> /\ max_time = 0 /\ loop_t = 0 /\ images = <<>>
  /\ flushed = FALSE /\ m_is_finished = FALSE /\ m_buffer = <<>>
  /\ encoder_pending = <<>> /\ produce_pc = "none"

\* neither a layout, a region, a grid nor a layout producer is worked on
EncodeIdle ==
  /\ m_duration = 0 /\ m_fps = <<1, 1>> /\ enc_t = <<0, 0>>
  /\ m_frame = 0 /\ frames_out = 0 /\ last_pts = <<0, 0>>
  /\ encode_pc = "none"

DecoderIdle ==
  /\ decoder_kind = "VPL" /\ webm_frames = <<>> /\ decoder_latency = 0
  /\ decoder_duration = 0 /\ webm_position = 0
  /\ m_current_timestamp = 0 /\ m_next_timestamp = 0
  /\ m_current_yuv_image = 0 /\ m_next_yuv_image = 0
  /\ m_is_time_over = FALSE /\ m_finished_webm = FALSE
  /\ request = 0 /\ returned_image = 0 /\ decoder_pc = "none"

SequencerIdle ==
  /\ m_sequence = <<>> /\ yuvs = <<>> /\ sequencer_timestamp = 0
  /\ sequencer_pc = "none"

MainIdle ==
  /\ config = <<>> /\ codec_support = <<>> /\ main_pc = "none"
  /\ vpl_instance = FALSE /\ openh264_instance = FALSE /\ opened = {}
  /\ events = <<>> /\ ret = NotExited /\ failed_step = "none"
  /\ codec_missing = FALSE /\ main_status = NotExited

WebMIdle ==
  /\ awm_pc = "none" /\ awm_audio_only = FALSE /\ opus_skip = NoSkip
  /\ audio_tracks = <<>> /\ video_tracks = 0 /\ audio_frames_added = 0

ZSortIdle ==
  /\ layout_regions = <<>> /\ zsort_pc = "none"

CellApiIdle ==
  /\ api_cells = <<>> /\ api_before = <<>> /\ api_call = <<"none">>

AppendIdle ==
  /\ ap_container = "none" /\ m_chunk_interval = 0
  /\ ap_pushed = <<>> /\ ap_queue = <<>> /\ ap_front = <<>> /\ ap_pc = "none"
  /\ ap_tracks = <<>> /\ ap_buffer = <<>> /\ m_chunk_start = 0 /\ ap_released = <<>>

SessionIdle ==
  /\ session_instance = {} /\ session_deletes = <<>> /\ session_call = <<>>

RestIdle == EncodeIdle /\ DecoderIdle /\ SequencerIdle /\ MainIdle /\ WebMIdle /\ ZSortIdle /\ CellApiIdle /\ AppendIdle /\ SessionIdle

LayoutIdle == PlanIdle /\ RegionIdle /\ GridIdle /\ ProduceIdle

MuxInit == MuxInitFor(FrameStreams) /\ LayoutIdle /\ RestIdle

\* ------------------------------------------------------------ video producer
\* produce(): if (isFinished()) return;
VideoEnter ==
  /\ v_pc = "start"
  /\ v_pc' = IF isFinished(v_fin, v_buf) THEN "returned" ELSE "loop"
  /\ UNCHANGED <<v_src, v_n, v_buf, v_fin, no_video>>
  /\ UNCHANGED <<audioVars, pc, localVars, ratio, log, callerVars>>
  /\ UNCHANGED nonMuxVars

\* one pass of the for loop: under the buffer mutex the encoder pushes a frame
VideoOutputImage ==
  /\ v_pc = "loop"
  /\ v_n < Len(v_src)
  /\ v_buf' = Append(v_buf, v_src[v_n + 1])
  /\ v_n' = v_n + 1
  /\ UNCHANGED <<v_src, v_fin, v_pc, no_video>>
  /\ UNCHANGED <<audioVars, pc, localVars, ratio, log, callerVars>>
  /\ UNCHANGED nonMuxVars

\* mutant: m_is_finished is set before, and outside the critical section of,
\* the flush
VideoFlush_FinishedBeforeFlush ==
  /\ \/ /\ v_pc = "loop"
        /\ Len(v_src) - v_n <= MaxFlush
        /\ v_fin' = TRUE
        /\ v_pc' = "flushing"
        /\ UNCHANGED <<v_buf, v_n>>
     \/ /\ v_pc = "flushing"
        /\ v_buf' = v_buf \o SubSeq(v_src, v_n + 1, Len(v_src))
        /\ v_n' = Len(v_src)
        /\ v_pc' = "finished"
        /\ UNCHANGED v_fin
  /\ UNCHANGED <<v_src, no_video>>
  /\ UNCHANGED <<audioVars, pc, localVars, ratio, log, callerVars>>
  /\ UNCHANGED nonMuxVars

\* after the loop: in one critical section flush() pushes what the encoder
\* still holds and m_is_finished becomes true
VideoFlush ==
  /\ v_pc = "loop"
  /\ Len(v_src) - v_n <= MaxFlush
  /\ v_buf' = v_buf \o SubSeq(v_src, v_n + 1, Len(v_src))
  /\ v_n' = Len(v_src)
  /\ v_fin' = TRUE
  /\ v_pc' = "finished"
  /\ UNCHANGED <<v_src, no_video>>
  /\ UNCHANGED <<audioVars, pc, localVars, ratio, log, callerVars>>
  /\ UNCHANGED nonMuxVars

\* produce() returns: the future becomes ready with a value
VideoReturn ==
  /\ v_pc = "finished"
  /\ v_pc' = "returned"
  /\ UNCHANGED <<v_src, v_n, v_buf, v_fin, no_video>>
  /\ UNCHANGED <<audioVars, pc, localVars, ratio, log, callerVars>>
  /\ UNCHANGED nonMuxVars

\* mutant: catch sets m_is_finished and the loop goes on
VideoCatch_NoRethrow ==
  /\ v_pc = "loop"
  /\ v_fin' = TRUE
  /\ UNCHANGED <<v_src, v_n, v_buf, v_pc, no_video>>
  /\ UNCHANGED <<audioVars, pc, localVars, ratio, log, callerVars>>
  /\ UNCHANGED nonMuxVars

\* an exception inside the try block: catch sets m_is_finished and rethrows,
\* the future becomes ready with the exception
VideoCatch ==
  /\ v_pc = "loop"
  /\ v_fin' = TRUE
  /\ v_pc' = "threw"
  /\ UNCHANGED <<v_src, v_n, v_buf, no_video>>
  /\ UNCHANGED <<audioVars, pc, localVars, ratio, log, callerVars>>
  /\ UNCHANGED nonMuxVars

\* ------------------------------------------------------------ audio producer
AudioOutput ==
  /\ a_pc = "loop"
  /\ a_n < Len(a_src)
  /\ a_buf' = Append(a_buf, a_src[a_n + 1])
  /\ a_n' = a_n + 1
  /\ UNCHANGED <<a_src, a_fin, a_pc>>
  /\ UNCHANGED <<videoVars, pc, localVars, ratio, log, callerVars>>
  /\ UNCHANGED nonMuxVars

AudioFlush ==
  /\ a_pc = "loop"
  /\ Len(a_src) - a_n <= MaxFlush
  /\ a_buf' = a_buf \o SubSeq(a_src, a_n + 1, Len(a_src))
  /\ a_n' = Len(a_src)
  /\ a_fin' = TRUE
  /\ a_pc' = "finished"
  /\ UNCHANGED <<a_src>>
  /\ UNCHANGED <<videoVars, pc, localVars, ratio, log, callerVars>>
  /\ UNCHANGED nonMuxVars

AudioReturn ==
  /\ a_pc = "finished"
  /\ a_pc' = "returned"
  /\ UNCHANGED <<a_src, a_n, a_buf, a_fin>>
  /\ UNCHANGED <<videoVars, pc, localVars, ratio, log, callerVars>>
  /\ UNCHANGED nonMuxVars

AudioCatch ==
  /\ a_pc = "loop"
  /\ a_fin' = TRUE
  /\ a_pc' = "threw"
  /\ UNCHANGED <<a_src, a_n, a_buf>>
  /\ UNCHANGED <<videoVars, pc, localVars, ratio, log, callerVars>>
  /\ UNCHANGED nonMuxVars

\* ------------------------------------------------------------ Muxer::mux()
\* mutant: the ratio is taken as video timescale / audio timescale
VideoGoesFirst_InverseRatio(video_ts, audio_ts) ==
  video_ts * ratio[2] <= audio_ts * ratio[1]

\* line 73-76: video_front.timestamp * m_timescale_ratio <= audio_timestamp,
\* an exact comparison of rationals
VideoGoesFirst(video_ts, audio_ts) == video_ts * ratio[1] <= audio_ts * ratio[2]

\* mutant: the container is given the newest queued frame, not the peeked one
appendAudio_Newest(frame) ==
  /\ log' = Append(log, <<"A", a_buf[Len(a_buf)]>>)
  /\ a_buf' = bufferPop(a_buf)

\* appendAudio(frame): the container is given the copy taken by bufferFront(),
\* then the producer's queue is popped
appendAudio(frame) ==
  /\ log' = Append(log, <<"A", frame>>)
  /\ a_buf' = bufferPop(a_buf)

appendVideo(frame) ==
  /\ log' = Append(log, <<"V", frame>>)
  /\ v_buf' = bufferPop(v_buf)

\* the locals audio_front and video_front live for one pass of a loop
EndOfPass == audio_front' = <<>> /\ video_front' = <<>>

\* future.get(): returns once produce() is over, rethrows what it threw
Ready(producer_pc) == producer_pc \in {"returned", "threw"}

\* line 40: while (!m_audio_producer->isFinished())
MuxAudioLoopTest ==
  /\ pc = "L40"
  /\ pc' = IF isFinished(a_fin, a_buf) THEN "L83" ELSE "L41"
  /\ UNCHANGED <<audioVars, videoVars, localVars, ratio, log, callerVars>>
  /\ UNCHANGED nonMuxVars

\* lines 41-57: peek the audio head; none: sleep 100 ms and poll again
MuxAudioFront ==
  /\ pc = "L41"
  /\ audio_front' = bufferFront(a_buf)
  /\ pc' = IF ~has_value(audio_front') THEN "L40"
           ELSE IF video_finished THEN "L55" ELSE "L59"
  /\ UNCHANGED <<audioVars, videoVars, video_finished, video_front, ratio, log,
                 callerVars>>
  /\ UNCHANGED nonMuxVars

\* line 55 / 63 / 80: appendAudio(audio_front.value()); next pass of the loop
MuxAppendAudio ==
  /\ pc \in {"L55", "L63", "L80"}
  /\ appendAudio(value(audio_front))
  /\ pc' = "L40"
  /\ EndOfPass
  /\ UNCHANGED <<a_src, a_n, a_fin, a_pc, videoVars, video_finished, ratio,
                 callerVars>>
  /\ UNCHANGED nonMuxVars

\* mutant: the test of line 59 is missing, the muxer goes on to peek the video
\* queue
MuxVideoFinishedTest_Missing ==
  /\ pc = "L59"
  /\ pc' = "L67"
  /\ UNCHANGED <<audioVars, videoVars, localVars, ratio, log, callerVars>>
  /\ UNCHANGED nonMuxVars

\* mutant: video_finished is not set when the video producer is seen finished
MuxVideoFinishedTest_FlagNotSet ==
  /\ pc = "L59"
  /\ pc' = IF isFinished(v_fin, v_buf) THEN "L61" ELSE "L67"
  /\ video_finished' = FALSE
  /\ UNCHANGED <<audioVars, videoVars, audio_front, video_front, ratio, log,
                 callerVars>>
  /\ UNCHANGED nonMuxVars

\* lines 59-60: if (m_video_producer->isFinished()) video_finished = true
MuxVideoFinishedTest ==
  /\ pc = "L59"
  /\ IF isFinished(v_fin, v_buf)
       THEN video_finished' = TRUE /\ pc' = "L61"
       ELSE video_finished' = FALSE /\ pc' = "L67"
  /\ UNCHANGED <<audioVars, videoVars, audio_front, video_front, ratio, log,
                 callerVars>>
  /\ UNCHANGED nonMuxVars

\* line 61: video_future.get() inside the audio loop
MuxJoinVideoEarly ==
  /\ pc = "L61"
  /\ Ready(v_pc)
  /\ log' = Append(log, <<"JV", 0>>)
  /\ IF v_pc = "threw"
       THEN pc' = "unwind" /\ EndOfPass
       ELSE pc' = "L63" /\ UNCHANGED <<audio_front, video_front>>
  /\ UNCHANGED <<audioVars, videoVars, video_finished, ratio, callerVars>>
  /\ UNCHANGED nonMuxVars

\* lines 67-79: peek the video head; none: sleep 1000 ms and poll again;
\* else the smaller normalised timestamp goes first, video on a tie
MuxVideoFront ==
  /\ pc = "L67"
  /\ LET front == bufferFront(v_buf)
     IN IF ~has_value(front)
          THEN pc' = "L40" /\ EndOfPass
          ELSE /\ video_front' = front
               /\ audio_front' = audio_front
               /\ pc' = IF VideoGoesFirst(value(front), value(audio_front))
                          THEN "L77" ELSE "L80"
  /\ UNCHANGED <<audioVars, videoVars, video_finished, ratio, log, callerVars>>
  /\ UNCHANGED nonMuxVars

\* line 77: appendVideo(video_front.value()) in the audio loop
MuxAppendVideo ==
  /\ pc = "L77"
  /\ appendVideo(value(video_front))
  /\ pc' = "L40"
  /\ EndOfPass
  /\ UNCHANGED <<audioVars, v_src, v_n, v_fin, v_pc, no_video, video_finished,
                 ratio, callerVars>>
  /\ UNCHANGED nonMuxVars

\* lines 83-95: audio_future.get(); video already joined: finalize, else drain
MuxJoinAudio ==
  /\ pc = "L83"
  /\ Ready(a_pc)
  /\ log' = Append(log, <<"JA", 0>>)
  /\ pc' = IF a_pc = "threw" THEN "unwind"
           ELSE IF video_finished THEN "L87" ELSE "L96"
  /\ UNCHANGED <<audioVars, videoVars, localVars, ratio, callerVars>>
  /\ UNCHANGED nonMuxVars

\* line 96: while (!m_video_producer->isFinished())
MuxVideoLoopTest ==
  /\ pc = "L96"
  /\ pc' = IF isFinished(v_fin, v_buf) THEN "L106" ELSE "L97"
  /\ UNCHANGED <<audioVars, videoVars, localVars, ratio, log, callerVars>>
  /\ UNCHANGED nonMuxVars

\* lines 97-102: peek the video head; none: sleep 1000 ms and poll again
MuxVideoFrontDrain ==
  /\ pc = "L97"
  /\ video_front' = bufferFront(v_buf)
  /\ pc' = IF has_value(video_front') THEN "L103" ELSE "L96"
  /\ UNCHANGED <<audioVars, videoVars, video_finished, audio_front, ratio, log,
                 callerVars>>
  /\ UNCHANGED nonMuxVars

\* line 103: appendVideo(video_front.value()) in the drain loop
MuxAppendVideoDrain ==
  /\ pc = "L103"
  /\ appendVideo(value(video_front))
  /\ pc' = "L96"
  /\ EndOfPass
  /\ UNCHANGED <<audioVars, v_src, v_n, v_fin, v_pc, no_video, video_finished,
                 ratio, callerVars>>
  /\ UNCHANGED nonMuxVars

\* line 106: video_future.get() after the drain loop
MuxJoinVideoLate ==
  /\ pc = "L106"
  /\ Ready(v_pc)
  /\ log' = Append(log, <<"JV", 0>>)
  /\ pc' = IF v_pc = "threw" THEN "unwind" ELSE "L109"
  /\ UNCHANGED <<audioVars, videoVars, localVars, ratio, callerVars>>
  /\ UNCHANGED nonMuxVars

\* line 87 / 109: muxFinalize(); return
MuxFinalize ==
  /\ pc \in {"L87", "L109"}
  /\ log' = Append(log, <<"F", 0>>)
  /\ pc' = "returned"
  /\ UNCHANGED <<audioVars, videoVars, localVars, ratio, callerVars>>
  /\ UNCHANGED nonMuxVars

\* get() rethrew: mux() is left by the exception; the destructors of the two
\* std::async futures wait for their threads
MuxUnwind ==
  /\ pc = "unwind"
  /\ Ready(a_pc) /\ Ready(v_pc)
  /\ pc' = "threw"
  /\ UNCHANGED <<audioVars, videoVars, localVars, ratio, log, callerVars>>
  /\ UNCHANGED nonMuxVars

\* ------------------------------------------------------------ the caller
\* mutant: cleanUp() is not in a try block of its own; its exception leaves
\* compose() and main() uncaught and ends the process
FailureResult_CleanUpEscapes(cleanUp_throws, report_enabled, report_throws) ==
  IF cleanUp_throws THEN 134 ELSE EXIT_FAILURE   \* std::terminate: SIGABRT

\* compose(): what the handler of "muxing failed" returns
FailureResult(cleanUp_throws, report_enabled, report_throws) ==
  IF report_enabled /\ report_throws THEN EXIT_FAILURE ELSE EXIT_FAILURE

\* compose(): what is returned after muxer->run() came back
SuccessResult(report_enabled, report_throws) ==
  IF report_enabled /\ report_throws THEN EXIT_FAILURE ELSE EXIT_SUCCESS

\* catch (const std::exception& e): cleanUp() in its own try block, the
\* failure report if enabled, return EXIT_FAILURE
ComposeCatch ==
  /\ pc = "threw"
  /\ \E cleanUp_throws \in BOOLEAN, report_enabled \in BOOLEAN, report_throws \in BOOLEAN :
       /\ cleanup_threw' = cleanUp_throws
       /\ exit_code' = FailureResult(cleanUp_throws, report_enabled, report_throws)
  /\ cleanups' = cleanups + 1
  /\ pc' = "exited"
  /\ UNCHANGED <<audioVars, videoVars, localVars, ratio, log>>
  /\ UNCHANGED nonMuxVars

\* muxer->run() returned: the success report if enabled, return
ComposeReturn ==
  /\ pc = "returned"
  /\ \E report_enabled \in BOOLEAN, report_throws \in BOOLEAN :
       exit_code' = SuccessResult(report_enabled, report_throws)
  /\ pc' = "exited"
  /\ UNCHANGED <<audioVars, videoVars, localVars, ratio, log, cleanups,
                 cleanup_threw>>
  /\ UNCHANGED nonMuxVars

\* ------------------------------------------------------------ specification
VideoProducerStep ==
  VideoEnter \/ VideoOutputImage \/ VideoFlush \/ VideoReturn \/ VideoCatch

AudioProducerStep ==
  AudioOutput \/ AudioFlush \/ AudioReturn \/ AudioCatch

MuxStep ==
  \/ MuxAudioLoopTest \/ MuxAudioFront \/ MuxAppendAudio
  \/ MuxVideoFinishedTest \/ MuxJoinVideoEarly \/ MuxVideoFront
  \/ MuxAppendVideo \/ MuxJoinAudio \/ MuxVideoLoopTest
  \/ MuxVideoFrontDrain \/ MuxAppendVideoDrain \/ MuxJoinVideoLate
  \/ MuxFinalize \/ MuxUnwind

CallerStep == ComposeCatch \/ ComposeReturn

Init == MuxInit

Next == VideoProducerStep \/ AudioProducerStep \/ MuxStep \/ CallerStep

Spec == Init /\ [][Next]_vars

\* Each of the three threads keeps running: a sleeping muxer wakes up and polls
\* again, a producer thread that can take its next step takes it.
Fairness ==
  /\ WF_vars(MuxStep)
  /\ WF_vars(VideoProducerStep)
  /\ WF_vars(AudioProducerStep)
  /\ WF_vars(CallerStep)

LiveInit == MuxInitFor(LiveFrameStreams) /\ LayoutIdle /\ RestIdle

LiveSpec == LiveInit /\ [][Next]_vars /\ Fairness

\* ------------------------------------------------------------ observations
\* the log entries of one kind, and the timestamps the container received
Entries(kind) == SelectSeq(log, LAMBDA e : e[1] = kind)
Appended(kind) == [i \in 1..Len(Entries(kind)) |-> Entries(kind)[i][2]]
Count(kind) == Len(Entries(kind))
IsPrefix(s, t) == Len(s) <= Len(t) /\ s = SubSeq(t, 1, Len(s))

\* what each producer has pushed so far
PushedAudio == SubSeq(a_src, 1, a_n)
PushedVideo == SubSeq(v_src, 1, v_n)

\* all appended frames in container order, each with its timestamp brought to
\* a common unit: audio ts * den, video ts * num (ratio = num / den)
Frames == SelectSeq(log, LAMBDA e : e[1] \in {"A", "V"})
Normalized(e) == IF e[1] = "A" THEN e[2] * ratio[2] ELSE e[2] * ratio[1]
Merged == [i \in 1..Len(Frames) |-> Normalized(Frames[i])]

AnyProducerThrew == a_pc = "threw" \/ v_pc = "threw"
MuxReturned == pc = "returned" \/ (pc = "exited" /\ cleanups = 0)

\* ------------------------------------------------------------------ claims

\* C1: within each kind the container receives the frames in the order the
\* producer pushed them, so each kind's appended timestamps never decrease.
C1_OrderWithinKind ==
  /\ NonDecreasing(Appended("A"))
  /\ NonDecreasing(Appended("V"))
  /\ IsPrefix(Appended("A"), PushedAudio)
  /\ IsPrefix(Appended("V"), PushedVideo)

\* two audio and two video frames with growing timestamps were appended
C1_Witness ==
  /\ Count("A") >= 2 /\ Appended("A")[1] < Appended("A")[2]
  /\ Count("V") >= 2 /\ Appended("V")[1] < Appended("V")[2]

\* C2: in the audio loop an audio frame is about to be appended only when the
\* video producer is finished and drained or a video head is present with
\* video_ts * num > audio_ts * den; a video frame only when an audio head is
\* present with video_ts * num <= audio_ts * den; in the drain loop video is
\* appended only after audio is finished and drained; and the merged sequence
\* of appended frames never decreases in normalised timestamp.
C2_SmallerFirst ==
  /\ pc \in {"L55", "L63"} => isFinished(v_fin, v_buf)
  /\ pc = "L80" =>
       /\ v_buf # <<>> /\ Head(v_buf) = value(video_front)
       /\ a_buf # <<>> /\ Head(a_buf) = value(audio_front)
       /\ value(video_front) * ratio[1] > value(audio_front) * ratio[2]
  /\ pc = "L77" =>
       /\ v_buf # <<>> /\ Head(v_buf) = value(video_front)
       /\ a_buf # <<>> /\ Head(a_buf) = value(audio_front)
       /\ value(video_front) * ratio[1] <= value(audio_front) * ratio[2]
  /\ pc = "L103" => isFinished(a_fin, a_buf)
  /\ NonDecreasing(Merged)

\* with ratio 3: video went first on a tie, and later an audio frame with the
\* larger raw timestamp 2 went before the video frame with raw timestamp 1
C2_Witness ==
  /\ ratio = <<3, 1>>
  /\ \E i \in 1..(Len(Frames) - 1) :
       /\ Frames[i][1] = "V" /\ Frames[i + 1][1] = "A"
       /\ Merged[i] = Merged[i + 1]
  /\ \E i \in 1..(Len(Frames) - 1) :
       Frames[i] = <<"A", 2>> /\ Frames[i + 1] = <<"V", 1>>

\* C3: when mux() has returned normally, the container received exactly the
\* frames each producer pushed, both queues are empty and muxFinalize() was
\* called once, as the last thing.
C3_AllFramesOnce ==
  MuxReturned =>
    /\ Appended("A") = PushedAudio /\ PushedAudio = a_src
    /\ Appended("V") = PushedVideo /\ PushedVideo = v_src
    /\ a_buf = <<>> /\ v_buf = <<>>
    /\ Count("F") = 1
    /\ log[Len(log)][1] = "F"

\* mux() returned after appending MaxFrames frames of each kind
C3_Witness ==
  /\ pc = "returned"
  /\ Count("A") = MaxFrames /\ Count("V") = MaxFrames

\* C4: once both producers have marked themselves finished without an error,
\* mux() eventually calls muxFinalize() and returns; in particular it never
\* polls forever with an audio head present and the video producer finished.
BothFinishedNormally ==
  a_pc \in {"finished", "returned"} /\ v_pc \in {"finished", "returned"}

Finalized == Count("F") = 1 /\ pc \in {"returned", "exited"}

C4_EventuallyFinalizes == BothFinishedNormally ~> Finalized

\* the state the claim names: audio head present, video queue empty, video
\* producer (a real one) already finished, muxer about to test it at line 59
C4_Witness ==
  /\ pc = "L59" /\ ~no_video /\ Len(v_src) > 0
  /\ a_buf # <<>> /\ v_buf = <<>> /\ v_fin
  /\ BothFinishedNormally

\* C5: a producer whose produce() threw has m_is_finished set and pushes
\* nothing more; muxFinalize() is never called in such a run; the run ends with
\* the caller having called cleanUp() once and returning EXIT_FAILURE, whether
\* or not cleanUp() threw.
ThrewIsFinal ==
  /\ (v_pc = "threw" => v_pc' = "threw" /\ v_n' = v_n /\ v_fin')
  /\ (a_pc = "threw" => a_pc' = "threw" /\ a_n' = a_n /\ a_fin')

FailedRun ==
  /\ v_pc = "threw" => v_fin
  /\ a_pc = "threw" => a_fin
  /\ AnyProducerThrew =>
       /\ Count("F") = 0
       /\ pc # "returned"
       /\ pc = "exited" => cleanups = 1 /\ exit_code = EXIT_FAILURE

C5_ProducerFailure ==
  /\ []FailedRun
  /\ [][ThrewIsFinal]_vars
  /\ AnyProducerThrew ~> (pc = "exited" /\ cleanups = 1 /\ exit_code = EXIT_FAILURE)

\* the video producer threw after frames had been appended, cleanUp() threw as
\* well, and compose() returned EXIT_FAILURE
C5_Witness ==
  /\ v_pc = "threw" /\ a_pc = "returned"
  /\ Count("V") >= 1 /\ Count("JV") = 1
  /\ pc = "exited" /\ cleanup_threw /\ exit_code = EXIT_FAILURE

\* C6: with a NoVideoProducer the video side is finished and empty from the
\* start, the muxer never peeks or appends video, audio is appended in push
\* order, muxFinalize() is called only with audio finished and drained, and
\* once the audio producer has finished the run does finalize.
AudioOnlyRun ==
  no_video =>
    /\ isFinished(v_fin, v_buf)
    /\ Count("V") = 0
    /\ pc \notin {"L67", "L77", "L80", "L97", "L103"}
    /\ IsPrefix(Appended("A"), PushedAudio)
    /\ Count("F") >= 1 =>
         /\ isFinished(a_fin, a_buf)
         /\ Appended("A") = a_src
         /\ Count("F") = 1

C6_AudioOnly ==
  /\ []AudioOnlyRun
  /\ (no_video /\ a_pc \in {"finished", "returned"}) ~> Finalized

\* an audio-only run that appended every audio frame and returned
C6_Witness ==
  /\ no_video /\ pc = "returned"
  /\ Count("A") = MaxLiveFrames /\ Appended("A")[MaxLiveFrames] > 0

\* C7: each future is joined at most once, and when muxFinalize() has been
\* called both futures were joined exactly once, before it.
C7_JoinedOnce ==
  /\ Count("JA") <= 1 /\ Count("JV") <= 1
  /\ Count("F") >= 1 =>
       /\ Count("JA") = 1 /\ Count("JV") = 1
       /\ log[Len(log)][1] = "F"

\* video finished first (joined inside the audio loop), then the run completed
C7_WitnessVideoFirst ==
  /\ pc = "returned" /\ video_finished /\ ~no_video
  /\ Count("V") >= 1 /\ Count("A") >= 1

\* ======================================================================
\* Part 2: trim planning, hisui::layout::Metadata::prepare()
\* ======================================================================
\* A source interval and a trim interval are pairs <<lower, upper>>, half-open.
SourceIntervals == {i \in (0..MaxTime) \X (0..MaxTime) : i[1] < i[2]}

Max(a, b) == IF a >= b THEN a ELSE b
Min(a, b) == IF a <= b THEN a ELSE b

\* the intervals of a set ordered by start time (then end time)
RECURSIVE SortByStart(_)
SortByStart(S) ==
  IF S = {} THEN <<>>
  ELSE LET first == CHOOSE i \in S :
                      \A j \in S : i[1] < j[1] \/ (i[1] = j[1] /\ i[2] <= j[2])
       IN <<first>> \o SortByStart(S \ {first})

\* a trim is added at the end of the list; one that meets the last is merged
AppendTrim(trims, t) ==
  IF trims # <<>> /\ trims[Len(trims)][2] = t[1]
    THEN [trims EXCEPT ![Len(trims)] = <<trims[Len(trims)][1], t[2]>>]
    ELSE Append(trims, t)

\* mutant: the end of the covered span follows the last interval seen instead
\* of the maximum
RECURSIVE Sweep_LastEnd(_, _, _)
Sweep_LastEnd(sorted, covered_end, trims) ==
  IF sorted = <<>>
    THEN [trim_intervals |-> trims, max_end_time |-> covered_end]
    ELSE LET i == Head(sorted)
         IN Sweep_LastEnd(Tail(sorted), i[2],
                  IF i[1] > covered_end THEN AppendTrim(trims, <<covered_end, i[1]>>)
                                        ELSE trims)

\* walk the intervals by start time; whenever the next one starts after
\* everything seen so far has ended, the gap is a trim
RECURSIVE Sweep(_, _, _)
Sweep(sorted, covered_end, trims) ==
  IF sorted = <<>>
    THEN [trim_intervals |-> trims, max_end_time |-> covered_end]
    ELSE LET i == Head(sorted)
         IN Sweep(Tail(sorted), Max(covered_end, i[2]),
                  IF i[1] > covered_end THEN AppendTrim(trims, <<covered_end, i[1]>>)
                                        ELSE trims)

\* overlap_source_intervals({.sources, .reuse}): the spans of [0, max end) in
\* which no source is live, and the largest end time
overlap_source_intervals(sources) == Sweep(SortByStart(sources), 0, <<>>)

\* the common part of two sorted disjoint trim lists
RECURSIVE Intersect(_, _)
Intersect(A, B) ==
  IF A = <<>> \/ B = <<>> THEN <<>>
  ELSE LET a == Head(A)
           b == Head(B)
           lo == Max(a[1], b[1])
           hi == Min(a[2], b[2])
           rest == IF a[2] < b[2] THEN Intersect(Tail(A), B)
                   ELSE IF b[2] < a[2] THEN Intersect(A, Tail(B))
                   ELSE Intersect(Tail(A), Tail(B))
       IN IF lo < hi THEN <<<<lo, hi>>>> \o rest ELSE rest

\* overlap_trim_intervals({.list_of_trim_intervals}): the spans every list trims
RECURSIVE overlap_trim_intervals(_)
overlap_trim_intervals(lists) ==
  IF Len(lists) = 1 THEN Head(lists)
  ELSE Intersect(Head(lists), overlap_trim_intervals(Tail(lists)))

\* the total length of the parts of the trims that lie below x
RECURSIVE TrimmedBelow(_, _)
TrimmedBelow(trims, x) ==
  IF trims = <<>> THEN 0
  ELSE Max(0, Min(x, Head(trims)[2]) - Head(trims)[1]) + TrimmedBelow(Tail(trims), x)

\* substruct_trim_intervals({.interval, .trim_intervals})
substruct_trim_intervals(interval, trims) ==
  <<interval[1] - TrimmedBelow(trims, interval[1]),
    interval[2] - TrimmedBelow(trims, interval[2])>>

\* Region::prepare(): the region's own trim list and largest end time
RegionPrepare(video_sources) == overlap_source_intervals(video_sources)

\* Region::substructTrimIntervals() then Region::getMaxEndTime()
RegionTrimmedMaxEndTime(video_sources, trims) ==
  substruct_trim_intervals(<<0, RegionPrepare(video_sources).max_end_time>>, trims)[2]

\* ---- Metadata::prepare(), lines 187-233
\* lines 187-190: the interval of every audio source
audio_source_intervals == m_audio_sources

\* mutant: the audio list is not pushed onto list_of_trim_intervals
ListOfTrimIntervals_RegionsOnly(audio_result, regions) ==
  IF regions = <<>> THEN <<audio_result.trim_intervals>>
  ELSE [r \in 1..Len(regions) |-> RegionPrepare(regions[r]).trim_intervals]

\* lines 194-201: the audio trim list, then the trim list of each region
ListOfTrimIntervals(audio_result, regions) ==
  <<audio_result.trim_intervals>> \o
    [r \in 1..Len(regions) |-> RegionPrepare(regions[r]).trim_intervals]

\* mutant: without trim the first interval is kept wherever it starts
AppliedTrimIntervals_AnyFirst(trim, final) ==
  IF trim THEN final
  ELSE IF final # <<>> THEN <<final[1]>> ELSE <<>>

\* lines 209-219: with trim all of the final list, else only a first trim
\* that starts at 0
AppliedTrimIntervals(trim, final) ==
  IF trim THEN final
  ELSE IF final # <<>> /\ final[1][1] = 0 THEN <<final[1]>> ELSE <<>>

\* mutant: the end of the last region is taken without std::max
MaxOver_Last(start, values) ==
  IF values = <<>> THEN start ELSE values[Len(values)]

RECURSIVE MaxOver(_, _)
\* std::max folded over the regions, lines 230-233
MaxOver(start, values) ==
  IF values = <<>> THEN start ELSE MaxOver(Max(start, Head(values)), Tail(values))

RECURSIVE CountSources(_)
CountSources(regions) ==
  IF regions = <<>> THEN 0
  ELSE Cardinality(Head(regions)) + CountSources(Tail(regions))

\* audio sources and the video sources of all regions
TotalSources == Cardinality(m_audio_sources) + CountSources(m_regions)

\* the resolution and bitrate of a layout that asks for 16x16 and leaves
\* the bitrate to prepare()
SmallestLayout == {[width |-> 16, height |-> 16]} \X {0}

\* the layout file has been parsed with one of the given <<resolution,
\* bitrate>> pairs: nothing is prepared yet
ParsedWith(settings) ==
  /\ m_audio_sources = {} /\ m_regions = <<>>
  /\ m_trim \in BOOLEAN
  /\ plan_pc = "parsed"
  /\ audio_overlap_result = <<>> /\ list_of_trim_intervals = <<>>
  /\ overlap_trim_intervals_result = <<>> /\ trim_intervals = <<>>
  /\ m_audio_max_end_time = 0 /\ m_max_end_time = 0
  /\ trimmed_audio_sources = <<>> /\ trimmed_regions = <<>>
  /\ \E setting \in settings :
       m_resolution = setting[1] /\ m_bitrate = setting[2]

Parsed == ParsedWith(SmallestLayout)

planResults == <<audio_overlap_result, list_of_trim_intervals,
                 overlap_trim_intervals_result, trim_intervals,
                 m_audio_max_end_time, m_max_end_time,
                 trimmed_audio_sources, trimmed_regions,
                 m_resolution, m_bitrate>>

\* prepare(), lines 161-162: (x >> 2) << 2
RoundedResolution(resolution) ==
  [width |-> (resolution.width \div 4) * 4,
   height |-> (resolution.height \div 4) * 4]

\* mutant: a dimension of 16 is rejected as well
ResolutionAccepted_Above16(resolution) ==
  ~(resolution.width <= 16) /\ ~(resolution.height <= 16)

\* prepare(), lines 163-170: neither out_of_range is thrown
ResolutionAccepted(resolution) ==
  ~(resolution.width < 16) /\ ~(resolution.height < 16)

\* prepare(), lines 172-178
PreparedBitrate(bitrate, resolution) ==
  IF bitrate = 0
    THEN LET computed == (resolution.width * resolution.height) \div 300
         IN IF computed < 200 THEN 200 ELSE computed
    ELSE bitrate

\* mutant: the audio sources keep their intervals
TrimmedAudioSources_Untrimmed(sources, trims) == [i \in sources |-> i]

\* prepare(), lines 221-223: AudioSource::substructTrimIntervals on each
TrimmedAudioSources(sources, trims) ==
  [i \in sources |-> substruct_trim_intervals(i, trims)]

\* Region::substructTrimIntervals(): the region's sources and its end
TrimmedRegion(video_sources, trims) ==
  [sources |-> [i \in video_sources |-> substruct_trim_intervals(i, trims)],
   max_end_time |-> RegionTrimmedMaxEndTime(video_sources, trims)]

\* prepare(), lines 180-185: one more audio source of the layout
AddAudioSource ==
  /\ plan_pc = "parsed"
  /\ TotalSources < MaxSources
  /\ \E i \in SourceIntervals \ m_audio_sources :
       m_audio_sources' = m_audio_sources \cup {i}
  /\ UNCHANGED <<m_regions, m_trim, plan_pc, planResults>>
  /\ UNCHANGED nonPlanVars

\* parseVideoLayout(): one more region of the layout
AddRegion ==
  /\ plan_pc = "parsed"
  /\ Len(m_regions) < MaxRegions
  /\ m_regions' = Append(m_regions, {})
  /\ UNCHANGED <<m_audio_sources, m_trim, plan_pc, planResults>>
  /\ UNCHANGED nonPlanVars

\* one more video source of a region
AddVideoSource ==
  /\ plan_pc = "parsed"
  /\ TotalSources < MaxSources
  /\ \E r \in 1..Len(m_regions) : \E i \in SourceIntervals \ m_regions[r] :
       m_regions' = [m_regions EXCEPT ![r] = @ \cup {i}]
  /\ UNCHANGED <<m_audio_sources, m_trim, plan_pc, planResults>>
  /\ UNCHANGED nonPlanVars

\* Metadata::prepare(), lines 161-170: the rounded resolution is too small
PrepareRejected ==
  /\ plan_pc = "parsed"
  /\ m_resolution' = RoundedResolution(m_resolution)
  /\ ~ResolutionAccepted(m_resolution')
  /\ plan_pc' = "threw"
  /\ UNCHANGED <<m_audio_sources, m_regions, m_trim, audio_overlap_result,
                 list_of_trim_intervals, overlap_trim_intervals_result,
                 trim_intervals, m_audio_max_end_time, m_max_end_time,
                 trimmed_audio_sources, trimmed_regions, m_bitrate>>
  /\ UNCHANGED nonPlanVars

\* Metadata::prepare(), lines 159-233
Prepare ==
  /\ plan_pc = "parsed"
  /\ m_resolution' = RoundedResolution(m_resolution)
  /\ ResolutionAccepted(m_resolution')
  /\ m_bitrate' = PreparedBitrate(m_bitrate, m_resolution')
  /\ \E audio \in {overlap_source_intervals(audio_source_intervals)} :
     \E lists \in {ListOfTrimIntervals(audio, m_regions)} :
     \E final \in {overlap_trim_intervals(lists)} :
     \E applied \in {AppliedTrimIntervals(m_trim, final)} :
     \E audio_end \in {substruct_trim_intervals(<<0, audio.max_end_time>>, applied)[2]} :
        /\ audio_overlap_result' = audio
        /\ list_of_trim_intervals' = lists
        /\ overlap_trim_intervals_result' = final
        /\ trim_intervals' = applied
        /\ m_audio_max_end_time' = audio_end
        /\ trimmed_audio_sources' = TrimmedAudioSources(m_audio_sources, applied)
        /\ trimmed_regions' =
             [r \in 1..Len(m_regions) |-> TrimmedRegion(m_regions[r], applied)]
        /\ m_max_end_time' =
             MaxOver(audio_end,
                     [r \in 1..Len(m_regions) |-> trimmed_regions'[r].max_end_time])
  /\ plan_pc' = "prepared"
  /\ UNCHANGED <<m_audio_sources, m_regions, m_trim>>
  /\ UNCHANGED nonPlanVars

\* no muxer is running
MuxIdle ==
  /\ a_src = <<>> /\ a_n = 0 /\ a_buf = <<>> /\ a_fin = FALSE /\ a_pc = "idle"
  /\ v_src = <<>> /\ v_n = 0 /\ v_buf = <<>> /\ v_fin = FALSE /\ v_pc = "idle"
  /\ no_video = FALSE /\ pc = "idle" /\ video_finished = FALSE
  /\ audio_front = <<>> /\ video_front = <<>> /\ ratio = <<1, 1>>
  /\ log = <<>> /\ cleanups = 0 /\ cleanup_threw = FALSE /\ exit_code = NotExited

PlanNext == AddAudioSource \/ AddRegion \/ AddVideoSource \/ Prepare

PlanInit == Parsed /\ MuxIdle /\ RegionIdle /\ GridIdle /\ ProduceIdle /\ RestIdle

PlanSpec == PlanInit /\ [][PlanNext]_vars

\* ---- observations on a prepared layout
Prepared == plan_pc = "prepared"

\* t lies in one of the half-open intervals of the list
InTrims(trims, t) == \E k \in 1..Len(trims) : trims[k][1] <= t /\ t < trims[k][2]

\* a source of the set is live at t
LiveIn(sources, t) == \E i \in sources : i[1] <= t /\ t < i[2]

\* a source of some subsystem (audio, or the video of a region) is live at t
Live(t) ==
  \/ LiveIn(m_audio_sources, t)
  \/ \E r \in 1..Len(m_regions) : LiveIn(m_regions[r], t)

\* the largest upper bound of the intervals
MaxHi(sources) == CHOOSE h \in {i[2] : i \in sources} : \A i \in sources : i[2] <= h

\* the output time of the pre-trim time u
OutputTime(u) == u - TrimmedBelow(trim_intervals, u)

\* the trim list of region r, as Metadata::prepare() received it
RegionTrims(r) == list_of_trim_intervals[r + 1]

\* C8: with trim enabled, every time t of the trimmed output timeline
\* [0, max_end_time) is the image of a pre-trim time at which some audio or
\* video source is live, and the applied trim list removes exactly the
\* pre-trim times at which no source of any subsystem is live
C8_TrimConsistency ==
  (Prepared /\ m_trim) =>
    /\ \A t \in 0..(m_max_end_time - 1) :
         \E u \in 0..MaxTime :
           ~InTrims(trim_intervals, u) /\ OutputTime(u) = t /\ Live(u)
    /\ \A u \in 0..MaxTime :
         (\E v \in u..MaxTime : Live(v)) =>
           (InTrims(trim_intervals, u) <=> ~Live(u))

\* C9: the final trim list holds exactly the times that the audio trim list
\* and the trim list of every region all hold; it is sorted by lower bound
\* and its intervals are pairwise disjoint
C9_FinalIsIntersection ==
  Prepared =>
    LET final == overlap_trim_intervals_result
        audio == overlap_source_intervals(m_audio_sources).trim_intervals
        regions == [r \in 1..Len(m_regions) |-> RegionPrepare(m_regions[r]).trim_intervals]
    IN /\ \A t \in 0..MaxTime :
            InTrims(final, t) <=>
              /\ InTrims(audio, t)
              /\ \A r \in 1..Len(m_regions) : InTrims(regions[r], t)
       /\ \A k \in 1..Len(final) : final[k][1] < final[k][2]
       /\ \A j, k \in 1..Len(final) : j < k => final[j][2] <= final[k][1]

\* the final list is a proper part of the audio list and of a region's list
C9_Witness ==
  /\ Prepared /\ Len(m_regions) >= 1
  /\ overlap_trim_intervals_result # <<>>
  /\ overlap_trim_intervals_result # audio_overlap_result.trim_intervals
  /\ overlap_trim_intervals_result # RegionTrims(1)

\* the raw trim list of a set of source intervals is the complement of their
\* union within [0, max_hi), half-open, with no two trims meeting
RawTrimsAreComplement(sources, trims) ==
  /\ \A t \in 0..MaxTime :
       InTrims(trims, t) <=> (t < MaxHi(sources) /\ ~LiveIn(sources, t))
  /\ \A k \in 1..Len(trims) :
       /\ trims[k][1] < trims[k][2]
       /\ ~InTrims(trims, trims[k][2])
       /\ LiveIn(sources, trims[k][2])
  /\ \A k \in 1..(Len(trims) - 1) : trims[k][2] < trims[k + 1][1]

\* C10: for the audio sources and for the video sources of every region,
\* the raw trim list is the complement of the union of the intervals within
\* [0, max_hi), max_hi is returned as max_end_time, a point t = trim.hi is
\* not trimmed, and no two trims of the list meet
C10_RawTrimList ==
  Prepared =>
    /\ m_audio_sources # {} =>
         /\ audio_overlap_result.max_end_time = MaxHi(m_audio_sources)
         /\ RawTrimsAreComplement(m_audio_sources, audio_overlap_result.trim_intervals)
    /\ \A r \in 1..Len(m_regions) :
         m_regions[r] # {} => RawTrimsAreComplement(m_regions[r], RegionTrims(r))

\* two gaps between the audio sources, and a region whose only video source
\* starts late
C10_Witness ==
  /\ Prepared
  /\ Len(audio_overlap_result.trim_intervals) = 2
  /\ \E r \in 1..Len(m_regions) :
       m_regions[r] # {} /\ Len(RegionTrims(r)) = 1

\* the number of time units below x that lie in a trim the layout applies
TrimLengthBelow(x) == Cardinality({u \in 0..(x - 1) : InTrims(trim_intervals, u)})

\* [lo, hi) shifted left by the trimmed time below each of its bounds
Shifted(i) == <<i[1] - TrimLengthBelow(i[1]), i[2] - TrimLengthBelow(i[2])>>

\* the untrimmed end of a set of sources, 0 without sources
EndOf(sources) == IF sources = {} THEN 0 ELSE MaxHi(sources)

\* C11: every audio source, the audio span [0, audio max_end_time) and every
\* region's sources and span are shifted by the same applied trim list,
\* [lo, hi) becoming [lo - L(lo), hi - L(hi)) with L(x) the trimmed time
\* below x; the final max_end_time is the maximum of the trimmed audio end
\* and every region's trimmed end
C11_TrimApplied ==
  Prepared =>
    /\ \A i \in m_audio_sources : trimmed_audio_sources[i] = Shifted(i)
    /\ m_audio_max_end_time = Shifted(<<0, EndOf(m_audio_sources)>>)[2]
    /\ \A r \in 1..Len(m_regions) :
         /\ \A i \in m_regions[r] : trimmed_regions[r].sources[i] = Shifted(i)
         /\ trimmed_regions[r].max_end_time = Shifted(<<0, EndOf(m_regions[r])>>)[2]
    /\ m_max_end_time >= m_audio_max_end_time
    /\ \A r \in 1..Len(m_regions) : m_max_end_time >= trimmed_regions[r].max_end_time
    /\ \/ m_max_end_time = m_audio_max_end_time
       \/ \E r \in 1..Len(m_regions) : m_max_end_time = trimmed_regions[r].max_end_time

\* audio sources [0,1) and [2,3) with trim on: the trim list is [(1,2)], the
\* second source starts at output time 1; a region ending later than the
\* audio sets the duration
C11_Witness ==
  /\ Prepared /\ m_trim
  /\ m_audio_sources = {<<0, 1>>, <<2, 3>>}
  /\ trim_intervals = <<<<1, 2>>>>
  /\ trimmed_audio_sources[<<2, 3>>] = <<1, 2>>
  /\ m_audio_max_end_time = 2
  /\ Len(m_regions) = 1 /\ m_max_end_time = 3

\* C12: with trim = false the applied list is empty unless the first
\* interval of the final list starts at 0, and then it is exactly that one
\* interval: a time is trimmed iff the final list trims it and every time
\* before it; with trim = true the applied list is the final list
C12_AppliedTrimList ==
  Prepared =>
    LET final == overlap_trim_intervals_result
    IN IF m_trim
         THEN trim_intervals = final
         ELSE /\ Len(trim_intervals) <= 1
              /\ trim_intervals # <<>> => trim_intervals[1] = final[1] /\ final[1][1] = 0
              /\ \A t \in 0..MaxTime :
                   InTrims(trim_intervals, t) <=> \A u \in 0..t : InTrims(final, u)

\* trim = false, the final list starts at 0 and has a later interval, which
\* is discarded
C12_Witness ==
  /\ Prepared /\ ~m_trim
  /\ Len(overlap_trim_intervals_result) = 2
  /\ overlap_trim_intervals_result[1][1] = 0
  /\ trim_intervals = <<overlap_trim_intervals_result[1]>>

\* the intervals a set of sources has after the trims
Range(f) == {f[x] : x \in DOMAIN f}

\* the trim list prepare() would apply to the layout made of the trimmed
\* sources
ReappliedTrimIntervals ==
  AppliedTrimIntervals(m_trim,
    overlap_trim_intervals(
      ListOfTrimIntervals(
        overlap_source_intervals(Range(trimmed_audio_sources)),
        [r \in 1..Len(trimmed_regions) |-> Range(trimmed_regions[r].sources)])))

EndTimeMax == 2147483647

\* m_source == nullptr
NoSource == 0

\* mutant: the constructor does not take the status of the parameters
Cell_StatusIgnored(params) ==
  [index |-> params.index, status |-> "Idle",
   source |-> NoSource, end_time |-> EndTimeMax]

\* Cell::Cell()
Cell(params) ==
  [index |-> params.index, status |-> params.status,
   source |-> NoSource, end_time |-> EndTimeMax]

\* Cell::hasVideoSourceIndex()
hasVideoSourceIndex(cell, index) == cell.source # NoSource /\ cell.source = index

\* Cell::hasStatus()
hasStatus(cell, status) == cell.status = status

\* mutant: the cell ends where its source begins
setSource_EndLower(cell, source) ==
  [cell EXCEPT !.status = "Used", !.source = source.index,
               !.end_time = source.encoding_interval[1]]

\* Cell::setSource()
setSource(cell, source) ==
  [cell EXCEPT !.status = "Used", !.source = source.index,
               !.end_time = source.encoding_interval[2]]

\* mutant: the cell is released whatever the time
resetSource_Unconditional(cell, time) ==
  [cell EXCEPT !.status = "Idle", !.source = NoSource, !.end_time = EndTimeMax]

\* mutant: the cell is released only after its end time has passed
resetSource_Late(cell, time) ==
  IF time > cell.end_time
    THEN [cell EXCEPT !.status = "Idle", !.source = NoSource, !.end_time = EndTimeMax]
    ELSE cell

\* Cell::resetSource()
resetSource(cell, time) ==
  IF time >= cell.end_time
    THEN [cell EXCEPT !.status = "Idle", !.source = NoSource, !.end_time = EndTimeMax]
    ELSE cell

\* Cell::setExcludedStatus()
setExcludedStatus(cell) == [cell EXCEPT !.status = "Excluded"]

\* reset_cells_source()
reset_cells_source(cells, time) ==
  [i \in DOMAIN cells |-> resetSource(cells[i], time)]

\* ---- the region that owns the cells
\* the cells of a grid of n cells: Excluded where cells_excluded lists the
\* index, else Idle
RegionCells(n, cells_excluded) ==
  [i \in 0..(n - 1) |->
     Cell([index |-> i,
           status |-> IF i \in cells_excluded THEN "Excluded" ELSE "Idle"])]

\* the source with the given index
VideoSource(k) == [index |-> k, encoding_interval |-> m_video_sources[k]]

\* the cells an entering source may be given
Candidates(cells, reuse, used) ==
  {i \in DOMAIN cells :
     hasStatus(cells[i], "Idle") /\ (reuse = "None" => i \notin used)}

\* the idle cell the reuse policy prefers
PickCell(candidates, reuse) ==
  IF reuse = "ShowNewest"
    THEN CHOOSE i \in candidates : \A j \in candidates : j <= i
    ELSE CHOOSE i \in candidates : \A j \in candidates : i <= j

\* at time t every live source from index k on that no cell shows is given
\* a cell if the policy finds one
RECURSIVE SetVideoSources(_, _, _, _, _)
SetVideoSources(k, cells, entries, used, t) ==
  IF k > Len(m_video_sources) THEN <<cells, entries, used>>
  ELSE LET source == VideoSource(k)
           live == source.encoding_interval[1] <= t /\ t < source.encoding_interval[2]
           shown == \E i \in DOMAIN cells : hasVideoSourceIndex(cells[i], k)
           candidates == Candidates(cells, m_reuse, used)
       IN IF live /\ ~shown /\ candidates # {}
            THEN LET cell == PickCell(candidates, m_reuse)
                 IN SetVideoSources(k + 1,
                      [cells EXCEPT ![cell] = setSource(@, source)],
                      Append(entries,
                             [cell |-> cell, source |-> k,
                              encoding_interval |-> <<t, source.encoding_interval[2]>>]),
                      used \cup {cell}, t)
            ELSE SetVideoSources(k + 1, cells, entries, used, t)

\* the last end of the region's sources
RegionEnd ==
  MaxOver(0, [k \in 1..Len(m_video_sources) |-> m_video_sources[k][2]])

\* the encoding intervals a source can have
EncodingIntervals == {i \in (0..MaxTick) \X (0..MaxTick) : i[1] < i[2]}

\* a prepared region before its first image
RegionInit ==
  /\ \E n \in 1..MaxCells : \E cells_excluded \in SUBSET (0..(n - 1)) :
       m_cells = RegionCells(n, cells_excluded) /\ m_cells_excluded = cells_excluded
  /\ m_reuse \in {"None", "ShowOldest", "ShowNewest"}
  /\ m_video_sources \in SeqsUpTo(EncodingIntervals, MaxVideoSources)
  /\ tick = 0 /\ step \in {1, 2}
  /\ sequence = <<>> /\ history = {}

\* the region composes the image of time tick: expired cells are released,
\* then the live sources are placed
RegionTick ==
  /\ tick < RegionEnd
  /\ LET released == reset_cells_source(m_cells, tick)
         placed == SetVideoSources(1, released, sequence, history, tick)
     IN /\ m_cells' = placed[1]
        /\ sequence' = placed[2]
        /\ history' = placed[3]
  /\ tick' = tick + step
  /\ UNCHANGED <<m_cells_excluded, m_reuse, m_video_sources, step>>
  /\ UNCHANGED nonRegionVars

RegionNext == RegionTick

RegionSpecInit == RegionInit /\ MuxIdle /\ PlanIdle /\ GridIdle /\ ProduceIdle /\ RestIdle

RegionSpec == RegionSpecInit /\ [][RegionNext]_vars

\* ---- observations on a region
\* the time of the last image composed
LastTick == tick - step

\* source k is live at time t
LiveAt(k, t) == m_video_sources[k][1] <= t /\ t < m_video_sources[k][2]

\* some cell shows source k
Shown(k) == \E i \in DOMAIN m_cells : hasVideoSourceIndex(m_cells[i], k)

\* C14: two entries of the sequence for the same cell have disjoint
\* encoding intervals, the later one starting at or after the end time the
\* cell had from the earlier one; a Used cell holds the source of its last
\* entry until that end time
C14_OneSourcePerCell ==
  /\ \A a, b \in 1..Len(sequence) :
       (a < b /\ sequence[a].cell = sequence[b].cell) =>
         sequence[a].encoding_interval[2] <= sequence[b].encoding_interval[1]
  /\ \A i \in DOMAIN m_cells :
       hasStatus(m_cells[i], "Used") =>
         \E a \in 1..Len(sequence) :
           /\ sequence[a].cell = i /\ sequence[a].source = m_cells[i].source
           /\ sequence[a].encoding_interval[2] = m_cells[i].end_time
           /\ \A b \in (a + 1)..Len(sequence) : sequence[b].cell # i

\* a cell has been given a second source after the first one ended
C14_Witness ==
  \E a, b \in 1..Len(sequence) :
    /\ a < b /\ sequence[a].cell = sequence[b].cell
    /\ sequence[a].source # sequence[b].source

C16_ExcludedCells ==
  /\ \A i \in DOMAIN m_cells :
       i \in m_cells_excluded =>
         /\ hasStatus(m_cells[i], "Excluded") /\ m_cells[i].source = NoSource
         /\ i \notin history
         /\ \A a \in 1..Len(sequence) : sequence[a].cell # i
  /\ m_reuse = "None" =>
       \A j \in 1..Len(sequence) :
         /\ sequence[j].cell \notin m_cells_excluded
         /\ Cardinality({i \in DOMAIN m_cells \ m_cells_excluded :
                           i < sequence[j].cell}) = j - 1

\* cells_excluded = [1] in a region of three cells with reuse None: the two
\* sources are in cells 0 and 2
C16_Witness ==
  /\ m_reuse = "None" /\ m_cells_excluded = {1} /\ DOMAIN m_cells = {0, 1, 2}
  /\ Len(sequence) = 2
  /\ sequence[1].cell = 0 /\ sequence[2].cell = 2

\* ======================================================================
\* Part 4: the grid of a region, calc_grid_dimension
\* ======================================================================
\* mutant: the side grows while k * k <= n
RECURSIVE SmallestSide_Strict(_, _)
SmallestSide_Strict(k, n) == IF k * k > n THEN k ELSE SmallestSide_Strict(k + 1, n)

\* the side of the smallest square of at least n cells, searched from k
RECURSIVE SmallestSide(_, _)
SmallestSide(k, n) == IF k * k >= n THEN k ELSE SmallestSide(k + 1, n)

\* the free dimension grows from other until fixed * other cells hold n
RECURSIVE GrowToFit(_, _, _)
GrowToFit(fixed, other, n) ==
  IF fixed * other >= n THEN other ELSE GrowToFit(fixed, other + 1, n)

GridDimension(columns, rows) == [status |-> "ok", columns |-> columns, rows |-> rows]

\* the call throws
GridRejected == [status |-> "rejected", columns |-> 0, rows |-> 0]

\* calc_grid_dimension({max_columns, max_rows, number_of_sources})
calc_grid_dimension(params) ==
  LET n == params.number_of_sources
      max_columns == params.max_columns
      max_rows == params.max_rows
  IN IF max_columns = 0 /\ max_rows = 0
       THEN LET k == SmallestSide(1, n) IN GridDimension(k, k)
     ELSE IF max_rows = 0
       THEN GridDimension(max_columns, GrowToFit(max_columns, 1, n))
     ELSE IF max_columns = 0
       THEN GridDimension(GrowToFit(max_rows, 1, n), max_rows)
     ELSE IF max_columns * max_rows < n
       THEN GridRejected
     ELSE GridDimension(max_columns, max_rows)

\* mutant: the excluded cells are not counted
add_number_of_excluded_cells_None(params) == params.number_of_sources

\* add_number_of_excluded_cells({number_of_sources, cells_excluded})
add_number_of_excluded_cells(params) ==
  params.number_of_sources + Cardinality(params.cells_excluded)

\* a region with its grid limits, sources and excluded cells, no grid yet
GridInit ==
  /\ grid_params \in [max_columns : 0..MaxGridLimit, max_rows : 0..MaxGridLimit,
                      number_of_sources : 1..MaxGridSources,
                      cells_excluded : SUBSET (0..MaxExcludedIndex)]
  /\ grid_result = [status |-> "none", columns |-> 0, rows |-> 0]

\* the number of cells the region asks for
GridCells ==
  add_number_of_excluded_cells(
    [number_of_sources |-> grid_params.number_of_sources,
     cells_excluded |-> grid_params.cells_excluded])

\* the region computes its grid
CalcGrid ==
  /\ grid_result.status = "none"
  /\ grid_result' =
       calc_grid_dimension([max_columns |-> grid_params.max_columns,
                            max_rows |-> grid_params.max_rows,
                            number_of_sources |-> GridCells])
  /\ UNCHANGED grid_params
  /\ UNCHANGED nonGridVars

GridNext == CalcGrid

GridSpecInit == GridInit /\ MuxIdle /\ PlanIdle /\ RegionIdle /\ ProduceIdle /\ RestIdle

GridSpec == GridSpecInit /\ [][GridNext]_vars

\* ---- observations on a computed grid
Unconstrained == grid_params.max_columns = 0 /\ grid_params.max_rows = 0

GridComputed == grid_result.status # "none"

C18_GridLimits ==
  GridComputed =>
    LET max_columns == grid_params.max_columns
        max_rows == grid_params.max_rows
        n == grid_params.number_of_sources + Cardinality(grid_params.cells_excluded)
        columns == grid_result.columns
        rows == grid_result.rows
    IN /\ grid_result.status = "rejected" <=>
            (max_columns # 0 /\ max_rows # 0 /\ max_columns * max_rows < n)
       /\ grid_result.status = "ok" =>
            /\ max_columns # 0 => columns <= max_columns
            /\ max_rows # 0 => rows <= max_rows
            /\ columns * rows >= n
            /\ (max_columns # 0 /\ max_rows = 0) => columns * (rows - 1) < n
            /\ (max_columns = 0 /\ max_rows # 0) => (columns - 1) * rows < n
            /\ columns * rows
                 - Cardinality({e \in grid_params.cells_excluded : e < columns * rows})
                 >= grid_params.number_of_sources

\* two columns at most, three sources and two excluded cells: three rows
C18_Witness ==
  /\ grid_params.max_columns = 2 /\ grid_params.max_rows = 0
  /\ grid_params.number_of_sources = 3 /\ grid_params.cells_excluded = {0, 1}
  /\ grid_result = GridDimension(2, 3)

\* ======================================================================
\* Part 5: the output resolution, Metadata::prepare() lines 159-178
\* ======================================================================
\* the resolutions and bitrates a layout file can ask for
RequestedLayouts ==
  [width : 0..MaxResolution, height : 0..MaxResolution] \X {0, 1000}

ResolutionInit ==
  ParsedWith(RequestedLayouts) /\ MuxIdle /\ RegionIdle /\ GridIdle /\ ProduceIdle /\ RestIdle

ResolutionNext == Prepare \/ PrepareRejected

ResolutionSpec == ResolutionInit /\ [][ResolutionNext]_vars

\* x is the largest multiple of 4 that does not exceed requested
RoundedDownTo4(x, requested) ==
  /\ x % 4 = 0
  /\ x <= requested
  /\ requested - x < 4

\* prepare() runs: both dimensions are rounded down to a multiple of 4, and
\* it throws iff a rounded dimension is below 16
PrepareRoundsAndRejects ==
  (plan_pc = "parsed" /\ plan_pc' # "parsed") =>
    /\ RoundedDownTo4(m_resolution'.width, m_resolution.width)
    /\ RoundedDownTo4(m_resolution'.height, m_resolution.height)
    /\ plan_pc' = "threw" <=> (m_resolution'.width < 16 \/ m_resolution'.height < 16)
    /\ plan_pc' = "prepared" <=> (m_resolution.width >= 16 /\ m_resolution.height >= 16)

\* C19: prepare() replaces the width and the height by the largest multiple
\* of 4 not above each and throws iff a rounded dimension is below 16, so a
\* requested 16..19 is accepted as 16 and 15 is rejected; after a
\* successful prepare both dimensions are multiples of 4 and at least 16
C19_ResolutionRounded ==
  /\ [][PrepareRoundsAndRejects]_vars
  /\ [](Prepared =>
          /\ m_resolution.width % 4 = 0 /\ m_resolution.width >= 16
          /\ m_resolution.height % 4 = 0 /\ m_resolution.height >= 16)

\* a width of 12..15 has been rounded to 12 and rejected although the
\* height, rounded to 16, would have been accepted
C19_Witness ==
  /\ plan_pc = "threw"
  /\ m_resolution = [width |-> 12, height |-> 16]

\* ======================================================================
\* Part 6: a layout video producer, AV1VideoProducer::produce() and
\* OpenH264VideoProducer::produce()
\* ======================================================================
\* config.out_video_frame_rate: <<numerator, denominator>>
FrameRates == {<<30, 1>>, <<3, 1>>, <<7, 2>>}

\* the step of the loop of produce()
Step(frame_rate) == (NANO_SECOND * frame_rate[2]) \div frame_rate[1]

\* ceil(m_duration * NANO_SECOND): on, just above and just below a multiple
\* of the step
MaxTimes(frame_rate) ==
  {k * Step(frame_rate) + r :
     k \in 0..(MaxImages - 1), r \in {0, 1, Step(frame_rate) - 1}}
  \cup {MaxImages * Step(frame_rate)}

\* a producer that has been constructed
ProduceInit ==
  /\ m_frame_rate \in FrameRates
  /\ max_time \in MaxTimes(m_frame_rate)
  /\ loop_t = 0 /\ images = <<>> /\ flushed = FALSE
  /\ m_is_finished = FALSE /\ m_buffer = <<>> /\ encoder_pending = <<>>
  /\ produce_pc = "idle"

\* produce() can be called
Callable == produce_pc \in {"idle", "returned", "returned_at_once"}

\* produce(): if (isFinished()) return;
ProduceCallFinished ==
  /\ Callable
  /\ isFinished(m_is_finished, m_buffer)
  /\ produce_pc' = "returned_at_once"
  /\ UNCHANGED <<m_frame_rate, max_time, loop_t, images, flushed, m_is_finished,
                 m_buffer, encoder_pending>>
  /\ UNCHANGED nonProduceVars

\* produce() on a producer that is not finished: the loop starts at t = 0
ProduceCall ==
  /\ Callable
  /\ ~isFinished(m_is_finished, m_buffer)
  /\ Len(m_buffer) <= MaxImages
  /\ produce_pc' = "loop"
  /\ loop_t' = 0 /\ images' = <<>> /\ flushed' = FALSE
  /\ UNCHANGED <<m_frame_rate, max_time, m_is_finished, m_buffer, encoder_pending>>
  /\ UNCHANGED nonProduceVars

\* mutant: the loop runs while t <= max_time
LoopContinues_Inclusive(time, end) == time <= end

\* the condition of the loop of produce()
LoopContinues(time, end) == time < end

\* one pass of the loop: the image of time t is composed and given to the
\* encoder, which pushes its frame or holds it back
ProduceOutputImage ==
  /\ produce_pc = "loop"
  /\ LoopContinues(loop_t, max_time)
  /\ images' = Append(images, loop_t)
  /\ \/ m_buffer' = Append(m_buffer, loop_t) /\ UNCHANGED encoder_pending
     \/ encoder_pending' = Append(encoder_pending, loop_t) /\ UNCHANGED m_buffer
  /\ loop_t' = loop_t + Step(m_frame_rate)
  /\ UNCHANGED <<m_frame_rate, max_time, flushed, m_is_finished, produce_pc>>
  /\ UNCHANGED nonProduceVars

\* after the loop: m_encoder->flush(); m_is_finished = true; under one lock
ProduceFlush ==
  /\ produce_pc = "loop"
  /\ ~LoopContinues(loop_t, max_time)
  /\ m_buffer' = m_buffer \o encoder_pending
  /\ encoder_pending' = <<>>
  /\ flushed' = TRUE
  /\ m_is_finished' = TRUE
  /\ produce_pc' = "returned"
  /\ UNCHANGED <<m_frame_rate, max_time, loop_t, images>>
  /\ UNCHANGED nonProduceVars

\* compose() or the encoder throws: catch, m_is_finished = true, throw
ProduceCatch ==
  /\ produce_pc = "loop"
  /\ m_is_finished' = TRUE
  /\ produce_pc' = "threw"
  /\ UNCHANGED <<m_frame_rate, max_time, loop_t, images, flushed, m_buffer,
                 encoder_pending>>
  /\ UNCHANGED nonProduceVars

\* the muxer takes the frame at the head of the queue
ProduceBufferPop ==
  /\ produce_pc # "none"
  /\ m_buffer # <<>>
  /\ m_buffer' = bufferPop(m_buffer)
  /\ UNCHANGED <<m_frame_rate, max_time, loop_t, images, flushed, m_is_finished,
                 encoder_pending, produce_pc>>
  /\ UNCHANGED nonProduceVars

ProduceNext ==
  \/ ProduceCallFinished \/ ProduceCall \/ ProduceOutputImage
  \/ ProduceFlush \/ ProduceCatch \/ ProduceBufferPop

ProduceSpecInit == ProduceInit /\ MuxIdle /\ PlanIdle /\ RegionIdle /\ GridIdle /\ RestIdle

ProduceSpec == ProduceSpecInit /\ [][ProduceNext]_vars

\* observations of a producer
CeilDiv(a, b) == (a + b - 1) \div b

\* the images composed so far are those of t = 0, step, 2 * step, ... in this
\* order, each before max_time
ImagesInOrder ==
  \A k \in 1..Len(images) :
    /\ images[k] = (k - 1) * Step(m_frame_rate)
    /\ images[k] < max_time

\* every t = k * step below max_time has its image
ImagesComplete ==
  /\ Len(images) = CeilDiv(max_time, Step(m_frame_rate))
  /\ \A k \in 0..MaxImages :
       k * Step(m_frame_rate) < max_time => k + 1 \in DOMAIN images

\* the step in which a producer that did not throw becomes finished is the
\* flush, taken with every image composed and none after it
FinishedByFlush ==
  /\ (~m_is_finished /\ m_is_finished' /\ produce_pc' # "threw")
       => ~flushed /\ flushed' /\ images' = images /\ ImagesComplete
  /\ (~flushed /\ flushed')
       => m_is_finished' /\ encoder_pending' = <<>> /\ ImagesComplete
  /\ flushed => images' = images \/ images' = <<>>

\* produce() on a producer whose isFinished() holds changes nothing
FinishedCallDoesNothing ==
  (Callable /\ isFinished(m_is_finished, m_buffer))
    => /\ produce_pc' \in {produce_pc, "returned_at_once"}
       /\ UNCHANGED <<loop_t, images, flushed, m_is_finished, m_buffer,
                      encoder_pending>>

TimeAdd(time, ns) ==
  IF time[2] + ns >= NANO_SECOND
    THEN <<time[1] + 1, time[2] + ns - NANO_SECOND>>
    ELSE <<time[1], time[2] + ns>>

TimeLess(a, b) == a[1] < b[1] \/ (a[1] = b[1] /\ a[2] < b[2])

\* floor(r * 10^9 / num) for r < num, by long division in base 1000
NanoFraction(r, num) ==
  LET d1 == (r * 1000) \div num
      r1 == (r * 1000) % num
      d2 == (r1 * 1000) \div num
      r2 == (r1 * 1000) % num
      d3 == (r2 * 1000) \div num
  IN  d1 * 1000000 + d2 * 1000 + d3

\* encodeFrame(): pts_ns = m_frame * m_timescale * denominator / numerator
PtsNs(frame, fps) ==
  <<(frame * fps[2]) \div fps[1], NanoFraction((frame * fps[2]) % fps[1], fps[1])>>

\* produce(): max_time = ceil(m_duration * NANO_SECOND)
MaxTimeNs(duration) == <<duration, 0>>

EncoderFrameRates == {<<30, 1>>, <<25, 1>>}

\* a producer made by compose() for an output of whole seconds
EncodeInit ==
  /\ m_duration \in 1..MaxDuration
  /\ m_fps \in EncoderFrameRates
  /\ enc_t = <<0, 0>> /\ m_frame = 0 /\ frames_out = 0 /\ last_pts = <<0, 0>>
  /\ encode_pc = "loop"

\* mutant: the timestamp counts the frames pushed, not the images submitted
EncodeFrame_CountsPushed ==
  /\ encode_pc = "loop"
  /\ TimeLess(enc_t, MaxTimeNs(m_duration))
  /\ last_pts' = PtsNs(frames_out, m_fps)
  /\ frames_out' = frames_out + 1
  /\ m_frame' = m_frame + 1
  /\ enc_t' = TimeAdd(enc_t, Step(m_fps))
  /\ UNCHANGED <<m_duration, m_fps, encode_pc>>
  /\ UNCHANGED nonEncodeVars

\* one pass of the loop: outputImage() calls encodeFrame(), which pushes a
\* frame with pts_ns, then ++m_frame
EncodeFrame ==
  /\ encode_pc = "loop"
  /\ TimeLess(enc_t, MaxTimeNs(m_duration))
  /\ last_pts' = PtsNs(m_frame, m_fps)
  /\ frames_out' = frames_out + 1
  /\ m_frame' = m_frame + 1
  /\ enc_t' = TimeAdd(enc_t, Step(m_fps))
  /\ UNCHANGED <<m_duration, m_fps, encode_pc>>
  /\ UNCHANGED nonEncodeVars

\* one pass of the loop in which the encoder answers videoFrameTypeSkip:
\* encodeFrame() returns false and pushes nothing, then ++m_frame
EncodeSkip ==
  /\ encode_pc = "loop"
  /\ TimeLess(enc_t, MaxTimeNs(m_duration))
  /\ m_frame - frames_out < MaxSkips
  /\ m_frame' = m_frame + 1
  /\ enc_t' = TimeAdd(enc_t, Step(m_fps))
  /\ UNCHANGED <<m_duration, m_fps, frames_out, last_pts, encode_pc>>
  /\ UNCHANGED nonEncodeVars

\* after the loop: flush() pushes nothing, m_is_finished = true
EncodeFinish ==
  /\ encode_pc = "loop"
  /\ ~TimeLess(enc_t, MaxTimeNs(m_duration))
  /\ encode_pc' = "finished"
  /\ UNCHANGED <<m_duration, m_fps, enc_t, m_frame, frames_out, last_pts>>
  /\ UNCHANGED nonEncodeVars

EncodeNext == EncodeFrame \/ EncodeSkip \/ EncodeFinish

EncodeSpecInit == EncodeInit /\ MuxIdle /\ LayoutIdle /\ DecoderIdle /\ SequencerIdle /\ MainIdle /\ WebMIdle /\ ZSortIdle /\ CellApiIdle /\ AppendIdle /\ SessionIdle

EncodeSpec == EncodeSpecInit /\ [][EncodeNext]_vars

\* k * ns as a time
RECURSIVE TimeTimes(_, _)
TimeTimes(k, ns) == IF k = 0 THEN <<0, 0>> ELSE TimeAdd(TimeTimes(k - 1, ns), ns)

\* the run of the scenario: 10 seconds at 30/1 and no frame skipped so far
TenSecondsAtThirty ==
  /\ encode_pc # "none"
  /\ m_duration = 10 /\ m_fps = <<30, 1>>
  /\ frames_out = m_frame

\* C21: for a single 10.0 s source at fps = 30/1 with trim = false the video
\* producer outputs exactly 300 frames whose timestamps are 0, 1 * 33333333,
\* ..., 299 * 33333333 ns.
C21_ThreeHundredFrames ==
  TenSecondsAtThirty =>
    /\ frames_out > 0 => last_pts = TimeTimes(frames_out - 1, 33333333)
    /\ encode_pc = "finished" => frames_out = 300

\* ======================================================================
\* Part 8: the video decoders, VPLDecoder::getImage and AV1Decoder::getImage
\* ======================================================================
\* m_black_yuv_image; the picture of frame k of the media is k
Black == 0

\* the media: frames with increasing timestamps
RECURSIVE SortedSeq(_)
SortedSeq(S) ==
  IF S = {} THEN <<>>
  ELSE LET lo == CHOOSE x \in S : \A y \in S : x <= y
       IN  <<lo>> \o SortedSeq(S \ {lo})

Medias ==
  {SortedSeq(S) : S \in {T \in SUBSET (0..MaxFrameTs) : Cardinality(T) <= MaxMediaFrames}}

\* what decode() leaves in the image after frame k has been read: the
\* picture of frame k - latency, or the old image when the decoder gives no
\* picture yet (MFX_ERR_MORE_DATA, EB_DecNoOutputPicture)
Decoded(k, latency, old) == IF k > latency THEN k - latency ELSE old

\* the state of a decoder as one record, for the loops below
DecoderState ==
  [position |-> webm_position,
   current_timestamp |-> m_current_timestamp,
   next_timestamp |-> m_next_timestamp,
   current_yuv_image |-> m_current_yuv_image,
   next_yuv_image |-> m_next_yuv_image,
   finished_webm |-> m_finished_webm]

\* mutant: the loop goes on only while timestamp > m_next_timestamp
ReachedNext_Strict(timestamp, next_timestamp) == timestamp > next_timestamp

\* while (timestamp >= m_next_timestamp)
ReachedNext(timestamp, next_timestamp) == timestamp >= next_timestamp

\* VPLDecoder::updateImageByTimestamp: the do-while loop
RECURSIVE VPLLoop(_, _, _, _)
VPLLoop(st, timestamp, frames, latency) ==
  LET s1 == [st EXCEPT !.current_yuv_image = st.next_yuv_image,
                       !.current_timestamp = st.next_timestamp]
  IN  IF s1.position < Len(frames)
        THEN LET k  == s1.position + 1
                 s2 == [s1 EXCEPT !.position = k,
                                  !.next_yuv_image = Decoded(k, latency, s1.next_yuv_image),
                                  !.next_timestamp = frames[k]]
             IN  IF ReachedNext(timestamp, s2.next_timestamp)
                   THEN VPLLoop(s2, timestamp, frames, latency)
                   ELSE s2
        ELSE [s1 EXCEPT !.finished_webm = TRUE, !.next_timestamp = EndTimeMax]

\* VPLDecoder::updateImage and updateImageByTimestamp
updateImage(st, timestamp, frames, latency) ==
  IF timestamp < st.next_timestamp \/ st.finished_webm
    THEN st
    ELSE VPLLoop(st, timestamp, frames, latency)

\* AV1Decoder::updateAV1ImageByTimestamp: the do-while loop
RECURSIVE AV1Loop(_, _, _, _)
AV1Loop(st, timestamp, frames, latency) ==
  LET s1 == [st EXCEPT !.current_timestamp = st.next_timestamp]
  IN  IF s1.position < Len(frames)
        THEN LET k  == s1.position + 1
                 s2 == [s1 EXCEPT !.position = k,
                                  !.current_yuv_image = Decoded(k, latency, s1.current_yuv_image),
                                  !.next_timestamp = frames[k]]
             IN  IF ReachedNext(timestamp, s2.next_timestamp)
                   THEN AV1Loop(s2, timestamp, frames, latency)
                   ELSE s2
        ELSE [s1 EXCEPT !.finished_webm = TRUE, !.next_timestamp = EndTimeMax]

updateAV1ImageByTimestamp(st, timestamp, frames, latency) ==
  IF st.finished_webm THEN st ELSE AV1Loop(st, timestamp, frames, latency)

\* AV1Decoder::updateAV1Image
updateAV1Image(st, timestamp, frames, latency) ==
  IF timestamp < st.next_timestamp
    THEN st
    ELSE updateAV1ImageByTimestamp(st, timestamp, frames, latency)

\* the members of the decoder become those of the record
DecoderBecomes(st) ==
  /\ webm_position' = st.position
  /\ m_current_timestamp' = st.current_timestamp
  /\ m_next_timestamp' = st.next_timestamp
  /\ m_current_yuv_image' = st.current_yuv_image
  /\ m_next_yuv_image' = st.next_yuv_image
  /\ m_finished_webm' = st.finished_webm

\* a media and a decoder kind have been chosen, no decoder is constructed
DecoderInit ==
  /\ decoder_kind \in {"VPL", "AV1"}
  /\ webm_frames \in Medias
  /\ decoder_latency \in 0..MaxLatency
  /\ decoder_duration \in 1..(MaxFrameTs + 1)
  /\ webm_position = 0
  /\ m_current_timestamp = 0 /\ m_next_timestamp = 0
  /\ m_current_yuv_image = Black /\ m_next_yuv_image = Black
  /\ m_is_time_over = FALSE /\ m_finished_webm = FALSE
  /\ request = 0 /\ returned_image = Black
  /\ decoder_pc = "new"

\* VPLDecoder::VPLDecoder: both images are black, nothing is read
VPLDecoder ==
  /\ decoder_pc = "new" /\ decoder_kind = "VPL"
  /\ decoder_pc' = "constructed"
  /\ UNCHANGED <<decoder_kind, webm_frames, decoder_latency, decoder_duration,
                 webm_position, m_current_timestamp, m_next_timestamp,
                 m_current_yuv_image, m_next_yuv_image, m_is_time_over,
                 m_finished_webm, request, returned_image>>
  /\ UNCHANGED nonDecoderVars

\* AV1Decoder::AV1Decoder: ends with updateAV1ImageByTimestamp(0)
AV1Decoder ==
  /\ decoder_pc = "new" /\ decoder_kind = "AV1"
  /\ DecoderBecomes(updateAV1ImageByTimestamp(DecoderState, 0, webm_frames,
                                              decoder_latency))
  /\ decoder_pc' = "constructed"
  /\ UNCHANGED <<decoder_kind, webm_frames, decoder_latency, decoder_duration,
                 m_is_time_over, request, returned_image>>
  /\ UNCHANGED nonDecoderVars

\* the requests of one decoder do not decrease while it is within its
\* duration; a decoder that is over can be asked for any time
Requests ==
  {t \in 0..(MaxFrameTs + 1) :
     (decoder_pc = "returned" /\ ~m_is_time_over) => t >= request}

\* mutant: m_is_time_over is not looked at
GetImage_NotAbsorbing(timestamp, update(_, _, _, _)) ==
  /\ decoder_pc \in {"constructed", "returned"}
  /\ request' = timestamp
  /\ decoder_pc' = "returned"
  /\ IF decoder_duration <= timestamp
       THEN /\ m_is_time_over' = TRUE
            /\ returned_image' = Black
            /\ UNCHANGED <<webm_position, m_current_timestamp, m_next_timestamp,
                           m_current_yuv_image, m_next_yuv_image, m_finished_webm>>
       ELSE LET st == update(DecoderState, timestamp, webm_frames, decoder_latency)
            IN  /\ DecoderBecomes(st)
                /\ returned_image' = st.current_yuv_image
                /\ UNCHANGED m_is_time_over
  /\ UNCHANGED <<decoder_kind, webm_frames, decoder_latency, decoder_duration>>
  /\ UNCHANGED nonDecoderVars

\* getImage(timestamp) of either decoder
GetImage(timestamp, update(_, _, _, _)) ==
  /\ decoder_pc \in {"constructed", "returned"}
  /\ request' = timestamp
  /\ decoder_pc' = "returned"
  /\ IF m_is_time_over
       THEN /\ returned_image' = Black
            /\ UNCHANGED <<webm_position, m_current_timestamp, m_next_timestamp,
                           m_current_yuv_image, m_next_yuv_image, m_is_time_over,
                           m_finished_webm>>
       ELSE IF decoder_duration <= timestamp
         THEN /\ m_is_time_over' = TRUE
              /\ returned_image' = Black
              /\ UNCHANGED <<webm_position, m_current_timestamp, m_next_timestamp,
                             m_current_yuv_image, m_next_yuv_image, m_finished_webm>>
         ELSE LET st == update(DecoderState, timestamp, webm_frames, decoder_latency)
              IN  /\ DecoderBecomes(st)
                  /\ returned_image' = st.current_yuv_image
                  /\ UNCHANGED m_is_time_over
  /\ UNCHANGED <<decoder_kind, webm_frames, decoder_latency, decoder_duration>>
  /\ UNCHANGED nonDecoderVars

VPLGetImage_NotAbsorbing ==
  /\ decoder_kind = "VPL"
  /\ \E timestamp \in Requests : GetImage_NotAbsorbing(timestamp, updateImage)

\* VPLDecoder::getImage
VPLGetImage ==
  /\ decoder_kind = "VPL"
  /\ \E timestamp \in Requests : GetImage(timestamp, updateImage)

\* AV1Decoder::getImage
AV1GetImage ==
  /\ decoder_kind = "AV1"
  /\ \E timestamp \in Requests : GetImage(timestamp, updateAV1Image)

DecoderNext == VPLDecoder \/ AV1Decoder \/ VPLGetImage \/ AV1GetImage

DecoderSpecInit == DecoderInit /\ MuxIdle /\ LayoutIdle /\ EncodeIdle /\ SequencerIdle /\ MainIdle /\ WebMIdle /\ ZSortIdle /\ CellApiIdle /\ AppendIdle /\ SessionIdle

DecoderSpec == DecoderSpecInit /\ [][DecoderNext]_vars

\* observations of a decoder
\* the frame of the media with the greatest timestamp <= timestamp, Black
\* if there is none
GreatestFrame(frames, timestamp) ==
  LET S == {k \in DOMAIN frames : frames[k] <= timestamp}
  IN  IF S = {} THEN Black ELSE CHOOSE k \in S : \A j \in S : j <= k

\* getImage() has returned and every request so far was below m_duration
InDuration == decoder_pc = "returned" /\ ~m_is_time_over

C23_AV1GreatestFrame ==
  (decoder_kind = "AV1" /\ InDuration /\ decoder_latency = 0) =>
    /\ returned_image = GreatestFrame(webm_frames, request)
    /\ returned_image # Black => webm_frames[returned_image] <= request

\* no further frame can be read and the last frame is before the request
MediaEndedBefore(timestamp) ==
  /\ m_finished_webm
  /\ \A k \in DOMAIN webm_frames : webm_frames[k] < timestamp

\* C24: a decoder returns the black image whenever the requested time is at
\* or after the duration of the source, and also whenever the media has
\* ended (no further frame can be read) before the requested time, even if
\* that time is below the declared duration.
C24_BlackOutsideMedia ==
  decoder_pc = "returned" =>
    /\ request >= decoder_duration => returned_image = Black
    /\ MediaEndedBefore(request) => returned_image = Black

\* ======================================================================
\* Part 9: BasicSequencer::getYUVs
\* ======================================================================
\* m_black_yuv_image of the sequencer; any other image is the answer of
\* source->getYUV(offset)
BlackImage == [source |-> <<0, 0>>, offset |-> 0]

SequencerIntervals ==
  {iv \in [lower : 0..MaxSequencerTime, upper : 0..MaxSequencerTime] : iv.lower < iv.upper}

\* the entries of one slot, in the order of their lower ends (then of their
\* upper ends), no interval twice
SlotIntervals ==
  {sl \in SeqsUpTo(SequencerIntervals, MaxSlotEntries) :
     \A j \in 1..(Len(sl) - 1) :
       \/ sl[j].lower < sl[j + 1].lower
       \/ sl[j].lower = sl[j + 1].lower /\ sl[j].upper < sl[j + 1].upper}

\* entry j of slot i has its own source
SlotOf(i, sl) ==
  [j \in DOMAIN sl |-> [source |-> <<i, j>>, lower |-> sl[j].lower, upper |-> sl[j].upper]]

\* util::Interval::isIn
isIn(entry, timestamp) == entry.lower <= timestamp /\ timestamp < entry.upper

\* util::Interval::getSubstructLower
getSubstructLower(entry, timestamp) == timestamp - entry.lower

\* mutant: the source is asked for the output time
SlotImage_OutputTime(slot, timestamp) ==
  LET found == {j \in DOMAIN slot : isIn(slot[j], timestamp)}
  IN  IF found = {} THEN BlackImage
      ELSE LET j == CHOOSE x \in found : \A y \in found : x <= y
           IN  [source |-> slot[j].source, offset |-> timestamp]

\* the body of the loop of getYUVs: find_if takes the first entry whose
\* interval has the timestamp
SlotImage(slot, timestamp) ==
  LET found == {j \in DOMAIN slot : isIn(slot[j], timestamp)}
  IN  IF found = {} THEN BlackImage
      ELSE LET j == CHOOSE x \in found : \A y \in found : x <= y
           IN  [source |-> slot[j].source,
                offset |-> getSubstructLower(slot[j], timestamp)]

SequencerInit ==
  /\ \E n \in 1..MaxSlots :
       \E sls \in [1..n -> SlotIntervals] :
         m_sequence = [i \in 1..n |-> SlotOf(i, sls[i])]
  /\ yuvs = <<>> /\ sequencer_timestamp = 0
  /\ sequencer_pc = "constructed"

\* BasicSequencer::getYUVs(yuvs, timestamp); the producer asks for increasing
\* timestamps
getYUVs ==
  /\ sequencer_pc \in {"constructed", "returned"}
  /\ \E timestamp \in 0..(MaxSequencerTime + 1) :
       /\ sequencer_pc = "returned" => timestamp > sequencer_timestamp
       /\ sequencer_timestamp' = timestamp
       /\ yuvs' = [i \in DOMAIN m_sequence |-> SlotImage(m_sequence[i], timestamp)]
  /\ sequencer_pc' = "returned"
  /\ UNCHANGED m_sequence
  /\ UNCHANGED nonSequencerVars

SequencerNext == getYUVs

SequencerSpecInit == SequencerInit /\ MuxIdle /\ LayoutIdle /\ EncodeIdle /\ DecoderIdle /\ MainIdle /\ WebMIdle /\ ZSortIdle /\ CellApiIdle /\ AppendIdle /\ SessionIdle

SequencerSpec == SequencerSpecInit /\ [][SequencerNext]_vars

\* observations of the sequencer
LiveEntries(i) ==
  {j \in DOMAIN m_sequence[i] :
     m_sequence[i][j].lower <= sequencer_timestamp
       /\ sequencer_timestamp < m_sequence[i][j].upper}

\* C25: at every output time t a slot of which no interval contains t is
\* given the black image, and a slot with an interval containing t is given
\* the frame of that source at the offset t - lower; so the slots are all
\* black exactly at the times at which no source is live.
C25_BlackOrLocalOffset ==
  sequencer_pc = "returned" =>
    /\ \A i \in DOMAIN m_sequence :
         /\ LiveEntries(i) = {} <=> yuvs[i] = BlackImage
         /\ LiveEntries(i) # {} =>
              \E j \in LiveEntries(i) :
                /\ yuvs[i].source = m_sequence[i][j].source
                /\ yuvs[i].offset = sequencer_timestamp - m_sequence[i][j].lower
                /\ yuvs[i].offset >= 0
    /\ (\A i \in DOMAIN yuvs : yuvs[i] = BlackImage)
         <=> (\A i \in DOMAIN m_sequence : LiveEntries(i) = {})

\* a slot with sources over [0, 1) and [2, 3): black in the gap at 1
C25_Witness ==
  /\ sequencer_pc = "returned"
  /\ Len(m_sequence) = 1 /\ Len(m_sequence[1]) = 2
  /\ m_sequence[1][1].lower = 0 /\ m_sequence[1][1].upper = 1
  /\ m_sequence[1][2].lower = 2 /\ m_sequence[1][2].upper = 3
  /\ sequencer_timestamp = 1
  /\ yuvs = <<BlackImage>>

\* ======================================================================
\* Part 10: main() and hisui::layout::compose()
\* ======================================================================
\* an exception leaves main(): std::terminate, the process is killed by
\* SIGABRT
Aborted == 134

H264Engines == {"Unspecified", "OpenH264", "OneVPL"}

\* the command line and the layout: layout is "--layout given", openh264 is
\* "--openh264 given", h264_input is "a video source of the layout is H.264"
Configs ==
  [USE_ONEVPL : BOOLEAN, layout : BOOLEAN, openh264 : BOOLEAN,
   out_video_codec : {"H264", "AV1", "VP9"},
   h264_encoder : H264Engines, h264_decoder : H264Engines,
   audio_only : BOOLEAN, h264_input : BOOLEAN,
   success_report : BOOLEAN, failure_report : BOOLEAN]

\* VPLEncoder::isSupported(H264_FOURCC), VPLDecoder::isSupported(H264_FOURCC)
CodecSupports == [encode_h264 : BOOLEAN, decode_h264 : BOOLEAN]

NoCodecSupport == [encode_h264 |-> FALSE, decode_h264 |-> FALSE]

\* a run without --layout does not reach the codec choices of compose()
PlainConfig(cfg) ==
  /\ cfg.out_video_codec = "VP9" /\ cfg.h264_encoder = "Unspecified"
  /\ cfg.h264_decoder = "Unspecified" /\ ~cfg.audio_only /\ ~cfg.h264_input

MainInit ==
  /\ config \in {cfg \in Configs : ~cfg.layout => PlainConfig(cfg)}
  /\ codec_support \in {sup \in CodecSupports : ~config.USE_ONEVPL => sup = NoCodecSupport}
  /\ main_pc = "start"
  /\ vpl_instance = FALSE /\ openh264_instance = FALSE /\ opened = {}
  /\ events = <<>> /\ ret = NotExited /\ failed_step = "none"
  /\ codec_missing = FALSE /\ main_status = NotExited

\* return from main() with this status
Exit(status) == main_pc' = "exited" /\ main_status' = status

\* closeHandlersAndSession(): what it closes, in order
ClosedNow ==
  (IF openh264_instance THEN <<"close_openh264">> ELSE <<>>)
    \o (IF config.USE_ONEVPL /\ vpl_instance THEN <<"close_vpl">> ELSE <<>>)

\* closeHandlersAndSession(): each close() leaves hasInstance() false
closeHandlersAndSession ==
  /\ openh264_instance' = FALSE
  /\ vpl_instance' = (vpl_instance /\ ~config.USE_ONEVPL)

\* main, lines 56-62: VPLSession::open(); an exception is caught and logged
OpenVPLSession ==
  /\ main_pc = "start"
  /\ main_pc' = "cli"
  /\ \E ok \in BOOLEAN :
       /\ vpl_instance' = (config.USE_ONEVPL /\ ok)
       /\ opened' = IF config.USE_ONEVPL /\ ok THEN opened \cup {"vpl"} ELSE opened
  /\ UNCHANGED <<config, codec_support, openh264_instance, events, ret,
                 failed_step, codec_missing, main_status>>
  /\ UNCHANGED nonMainVars

\* hisui::version::get_hisui_version()
get_hisui_version == "2023.1.1"

\* main, lines 64-96: the command line; "version" prints and returns, an
\* exception returns EXIT_FAILURE; OpenH264Handler::open() may fail with a
\* warning only
AdjustConfiguration ==
  /\ main_pc = "cli"
  /\ \E outcome \in {"ok", "version", "throws"}, ok \in BOOLEAN :
       /\ openh264_instance' = (outcome = "ok" /\ config.openh264 /\ ok)
       /\ opened' = IF openh264_instance' THEN opened \cup {"openh264"} ELSE opened
       /\ CASE outcome = "ok" ->
                 /\ main_pc' = IF config.layout THEN "compose" ELSE "validate"
                 /\ UNCHANGED <<main_status, failed_step>>
            [] outcome = "version" ->
                 /\ Exit(EXIT_SUCCESS)
                 /\ UNCHANGED failed_step
            [] outcome = "throws" ->
                 /\ Exit(EXIT_FAILURE)
                 /\ failed_step' = "configuration"
       /\ events' = IF outcome = "version"
                      THEN Append(events, get_hisui_version) ELSE events
  /\ UNCHANGED <<config, codec_support, vpl_instance, ret, codec_missing>>
  /\ UNCHANGED nonMainVars

\* DecoderFactory::create for an H.264 input: the decoder, or "throws"
H264Decoder(cfg, openh264, vpl, sup) ==
  IF cfg.h264_decoder = "OneVPL"
    THEN IF vpl /\ sup.decode_h264 THEN "VPLDecoder" ELSE "throws"
  ELSE IF cfg.h264_decoder = "OpenH264"
    THEN IF openh264 THEN "OpenH264Decoder" ELSE "throws"
  ELSE IF vpl /\ sup.decode_h264 THEN "VPLDecoder"
  ELSE IF openh264 THEN "OpenH264Decoder"
  ELSE "throws"

\* compose, line 32: parse_metadata() with prepare(), which opens the sources
\* of the layout and makes their decoders; nothing catches its exceptions
\* here or in main()
ParseMetadata ==
  /\ main_pc = "compose"
  /\ \/ /\ config.h264_input
        /\ H264Decoder(config, openh264_instance, vpl_instance, codec_support) = "throws"
        /\ Exit(Aborted)
        /\ failed_step' = "parse_metadata" /\ codec_missing' = TRUE
        /\ UNCHANGED events
     \/ /\ config.h264_input =>
             H264Decoder(config, openh264_instance, vpl_instance, codec_support) # "throws"
        /\ \/ /\ main_pc' = "compose_validate"
              /\ events' = Append(events, "planner")
              /\ UNCHANGED <<main_status, failed_step, codec_missing>>
           \/ /\ Exit(Aborted)
              /\ failed_step' = "parse_metadata"
              /\ UNCHANGED <<events, codec_missing>>
  /\ UNCHANGED <<config, codec_support, vpl_instance, openh264_instance, opened, ret>>
  /\ UNCHANGED nonMainVars

\* compose, lines 33-35: copyToConfig() and config.validate(), outside of
\* every try block
ComposeValidate ==
  /\ main_pc = "compose_validate"
  /\ \/ /\ main_pc' = "compose_video_producer"
        /\ UNCHANGED <<main_status, failed_step>>
     \/ /\ Exit(Aborted)
        /\ failed_step' = "validate"
  /\ UNCHANGED <<config, codec_support, vpl_instance, openh264_instance, opened,
                 events, ret, codec_missing>>
  /\ UNCHANGED nonMainVars

\* mutant: the OpenH264 library is required for every output codec
VideoProducerFor_AlwaysOpenH264(cfg, openh264, vpl, sup) ==
  IF cfg.audio_only THEN "NoVideoProducer"
  ELSE IF ~openh264 THEN "throws"
  ELSE IF cfg.out_video_codec = "AV1" THEN "AV1VideoProducer"
  ELSE "VPXVideoProducer"

\* compose, lines 40-143: the video producer that is made, or "throws"
VideoProducerFor(cfg, openh264, vpl, sup) ==
  IF cfg.audio_only THEN "NoVideoProducer"
  ELSE IF cfg.out_video_codec = "H264"
    THEN IF cfg.h264_encoder = "OpenH264"
           THEN IF openh264 THEN "OpenH264VideoProducer" ELSE "throws"
         ELSE IF cfg.USE_ONEVPL /\ cfg.h264_encoder = "OneVPL"
           THEN IF vpl /\ sup.encode_h264 THEN "VPLVideoProducer" ELSE "throws"
         ELSE IF cfg.USE_ONEVPL /\ vpl /\ sup.encode_h264 THEN "VPLVideoProducer"
         ELSE IF openh264 THEN "OpenH264VideoProducer"
         ELSE "throws"
  ELSE IF cfg.out_video_codec = "AV1" THEN "AV1VideoProducer"
  ELSE "VPXVideoProducer"

\* compose, lines 39-147: the video producer is constructed, or an exception
\* (no codec, or the constructor throws) returns EXIT_FAILURE
ComposeVideoProducer ==
  /\ main_pc = "compose_video_producer"
  /\ LET made == VideoProducerFor(config, openh264_instance, vpl_instance, codec_support)
     IN  \/ /\ made = "throws"
            /\ main_pc' = "compose_returned" /\ ret' = EXIT_FAILURE
            /\ failed_step' = "video_producer" /\ codec_missing' = TRUE
            /\ UNCHANGED events
         \/ /\ made # "throws"
            /\ \/ /\ main_pc' = "compose_muxer"
                  /\ events' = Append(events, "video_producer")
                  /\ UNCHANGED <<ret, failed_step, codec_missing>>
               \/ /\ made # "NoVideoProducer"
                  /\ main_pc' = "compose_returned" /\ ret' = EXIT_FAILURE
                  /\ failed_step' = "video_producer"
                  /\ UNCHANGED <<events, codec_missing>>
  /\ UNCHANGED <<config, codec_support, vpl_instance, openh264_instance, opened,
                 main_status>>
  /\ UNCHANGED nonMainVars

\* compose, lines 151-178: the muxer is constructed, or EXIT_FAILURE
ComposeMuxer ==
  /\ main_pc = "compose_muxer"
  /\ \/ /\ main_pc' = "compose_setUp"
        /\ events' = Append(events, "muxer")
        /\ UNCHANGED <<ret, failed_step>>
     \/ /\ main_pc' = "compose_returned" /\ ret' = EXIT_FAILURE
        /\ failed_step' = "muxer"
        /\ UNCHANGED events
  /\ UNCHANGED <<config, codec_support, vpl_instance, openh264_instance, opened,
                 codec_missing, main_status>>
  /\ UNCHANGED nonMainVars

\* mutant: run() is called although setUp() has thrown
AfterSetUp_Run(ok) == "compose_run"

\* compose, lines 179-182: an exception of setUp() goes to the handler
AfterSetUp(ok) == IF ok THEN "compose_run" ELSE "compose_failed"

\* compose, line 180: muxer->setUp()
ComposeSetUp ==
  /\ main_pc = "compose_setUp"
  /\ \E ok \in BOOLEAN :
       /\ main_pc' = AfterSetUp(ok)
       /\ events' = IF ok THEN Append(events, "setUp") ELSE events
       /\ failed_step' = IF ok THEN failed_step ELSE "setUp"
  /\ UNCHANGED <<config, codec_support, vpl_instance, openh264_instance, opened,
                 ret, codec_missing, main_status>>
  /\ UNCHANGED nonMainVars

\* compose, line 181: muxer->run(); Muxer::mux() starts the producer threads
\* and returns or throws
ComposeRun ==
  /\ main_pc = "compose_run"
  /\ \E ok \in BOOLEAN :
       /\ main_pc' = IF ok THEN "compose_report" ELSE "compose_failed"
       /\ events' = events \o <<"threads", IF ok THEN "run_returned" ELSE "run_threw">>
       /\ failed_step' = IF ok THEN failed_step ELSE "run"
  /\ UNCHANGED <<config, codec_support, vpl_instance, openh264_instance, opened,
                 ret, codec_missing, main_status>>
  /\ UNCHANGED nonMainVars

\* compose, lines 182-204: cleanUp(), whose exception is caught, the failure
\* report if enabled, EXIT_FAILURE
ComposeFailed ==
  /\ main_pc = "compose_failed"
  /\ main_pc' = "compose_returned" /\ ret' = EXIT_FAILURE
  /\ UNCHANGED <<config, codec_support, vpl_instance, openh264_instance, opened,
                 events, failed_step, codec_missing, main_status>>
  /\ UNCHANGED nonMainVars

\* compose, lines 206-219: the success report if enabled
ComposeReport ==
  /\ main_pc = "compose_report"
  /\ main_pc' = "compose_returned"
  /\ \/ /\ ret' = EXIT_SUCCESS
        /\ UNCHANGED failed_step
     \/ /\ config.success_report
        /\ ret' = EXIT_FAILURE
        /\ failed_step' = "report"
  /\ UNCHANGED <<config, codec_support, vpl_instance, openh264_instance, opened,
                 events, codec_missing, main_status>>
  /\ UNCHANGED nonMainVars

\* main, lines 100-104: compose() has returned; closeHandlersAndSession();
\* return ret
MainAfterCompose ==
  /\ main_pc = "compose_returned"
  /\ closeHandlersAndSession
  /\ events' = events \o ClosedNow
  /\ Exit(ret)
  /\ UNCHANGED <<config, codec_support, opened, ret, failed_step, codec_missing>>
  /\ UNCHANGED nonMainVars

\* main, lines 107-117: config.validate() outside of every try block, then
\* --video-codec-engines and the missing metadata file
MainValidate ==
  /\ main_pc = "validate"
  /\ \E outcome \in {"ok", "throws", "engines", "no_metadata_file"} :
       CASE outcome = "ok" ->
              /\ main_pc' = "muxer"
              /\ UNCHANGED <<main_status, failed_step>>
         [] outcome = "throws" ->
              /\ Exit(Aborted)
              /\ failed_step' = "validate"
         [] outcome = "engines" ->
              /\ Exit(EXIT_SUCCESS)
              /\ UNCHANGED failed_step
         [] outcome = "no_metadata_file" ->
              /\ Exit(EXIT_FAILURE)
              /\ failed_step' = "configuration"
  /\ UNCHANGED <<config, codec_support, vpl_instance, openh264_instance, opened,
                 events, ret, codec_missing>>
  /\ UNCHANGED nonMainVars

\* main, lines 119-182: the metadata is parsed and the muxer is made, or
\* EXIT_FAILURE
MainMuxer ==
  /\ main_pc = "muxer"
  /\ \/ /\ main_pc' = "run"
        /\ events' = Append(events, "muxer")
        /\ UNCHANGED <<main_status, failed_step>>
     \/ /\ Exit(EXIT_FAILURE)
        /\ failed_step' = "muxer"
        /\ UNCHANGED events
  /\ UNCHANGED <<config, codec_support, vpl_instance, openh264_instance, opened,
                 ret, codec_missing>>
  /\ UNCHANGED nonMainVars

\* main, lines 184-209: setUp() and run(); on an exception cleanUp(), the
\* failure report if enabled, and return EXIT_FAILURE
MainRun ==
  /\ main_pc = "run"
  /\ \E outcome \in {"ok", "setUp_threw", "run_threw"} :
       CASE outcome = "ok" ->
              /\ main_pc' = "finish"
              /\ events' = events \o <<"setUp", "threads", "run_returned">>
              /\ UNCHANGED <<main_status, failed_step>>
         [] outcome = "setUp_threw" ->
              /\ Exit(EXIT_FAILURE)
              /\ failed_step' = "setUp"
              /\ UNCHANGED events
         [] outcome = "run_threw" ->
              /\ Exit(EXIT_FAILURE)
              /\ events' = events \o <<"setUp", "threads", "run_threw">>
              /\ failed_step' = "run"
  /\ UNCHANGED <<config, codec_support, vpl_instance, openh264_instance, opened,
                 ret, codec_missing>>
  /\ UNCHANGED nonMainVars

\* main, lines 210-228: delete muxer; closeHandlersAndSession(); the success
\* report if enabled
MainFinish ==
  /\ main_pc = "finish"
  /\ closeHandlersAndSession
  /\ events' = events \o ClosedNow
  /\ \/ /\ Exit(EXIT_SUCCESS)
        /\ UNCHANGED failed_step
     \/ /\ config.success_report
        /\ Exit(EXIT_FAILURE)
        /\ failed_step' = "report"
  /\ UNCHANGED <<config, codec_support, opened, ret, codec_missing>>
  /\ UNCHANGED nonMainVars

MainNext ==
  \/ OpenVPLSession \/ AdjustConfiguration
  \/ ParseMetadata \/ ComposeValidate \/ ComposeVideoProducer \/ ComposeMuxer
  \/ ComposeSetUp \/ ComposeRun \/ ComposeFailed \/ ComposeReport
  \/ MainAfterCompose
  \/ MainValidate \/ MainMuxer \/ MainRun \/ MainFinish

MainSpecInit == MainInit /\ MuxIdle /\ LayoutIdle /\ EncodeIdle /\ DecoderIdle /\ SequencerIdle /\ WebMIdle /\ ZSortIdle /\ CellApiIdle /\ AppendIdle /\ SessionIdle

MainSpec == MainSpecInit /\ [][MainNext]_vars

\* ---- properties of main() and compose() ----

\* the positions of an event in the log of the run
Positions(e) == {i \in 1..Len(events) : events[i] = e}

Happened(e) == Positions(e) # {}

\* every e2 in the log has an e1 before it
Precedes(e1, e2) ==
  \A i \in Positions(e2) : \E j \in Positions(e1) : j < i

\* C26: every run ends with exit status 0 on success and with exit status 1
\* on an unrecoverable error (invalid configuration or layout, producer or
\* muxer setup failure, muxing failure, report write failure); none of them
\* ends in an uncaught exception.
C26_ExitStatus ==
  main_pc = "exited" =>
    main_status = (IF failed_step = "none" THEN EXIT_SUCCESS ELSE EXIT_FAILURE)

SetupSteps == {"video_producer", "muxer", "setUp"}

\* C27: the layout planner completes before any producer is constructed; a
\* producer thread is started only after the video producer construction,
\* the muxer construction and setUp() have succeeded; if one of these steps
\* fails no producer thread ever runs and compose returns EXIT_FAILURE.
C27_PlannerAndSetUpFirst ==
  config # <<>> /\ config.layout =>
    /\ Precedes("planner", "video_producer")
    /\ Precedes("video_producer", "threads")
    /\ Precedes("muxer", "threads")
    /\ Precedes("setUp", "threads")
    /\ failed_step \in SetupSteps =>
         /\ ~Happened("threads")
         /\ main_pc \in {"compose_failed", "compose_returned", "exited"}
         /\ main_pc = "compose_returned" => ret = EXIT_FAILURE
         /\ main_pc = "exited" => main_status = EXIT_FAILURE

\* setUp() threw in compose: no thread was started, the process returned 1
C27_Witness ==
  /\ config # <<>> /\ config.layout
  /\ main_pc = "exited" /\ failed_step = "setUp"
  /\ Happened("planner") /\ Happened("muxer") /\ ~Happened("threads")
  /\ main_status = EXIT_FAILURE

\* the event that closes a handle
CloseOf(handle) == IF handle = "vpl" THEN "close_vpl" ELSE "close_openh264"

\* muxer->run() has returned or thrown
MuxerEnded == Happened("run_returned") \/ Happened("run_threw")

\* C28: on every path of main on which the OpenH264 handler or the VPL
\* session was opened and the muxer ran, the paths ending in a muxing
\* failure included, each opened handle is closed exactly once after the
\* muxer has finished and before the process returns.
C28_ClosedOnceAfterMuxer ==
  main_pc = "exited" /\ MuxerEnded =>
    \A handle \in opened :
      /\ Cardinality(Positions(CloseOf(handle))) = 1
      /\ Precedes("run_returned", CloseOf(handle))
           \/ Precedes("run_threw", CloseOf(handle))

\* the H.264 encoder that was asked for cannot be had
EncoderUnavailable ==
  LET vpl == vpl_instance /\ codec_support.encode_h264
  IN  CASE config.h264_encoder = "OpenH264" -> ~openh264_instance
        [] config.h264_encoder = "OneVPL" -> ~vpl
        [] OTHER -> ~openh264_instance /\ ~vpl

\* no H.264 decoder can be had
DecoderUnavailable ==
  ~openh264_instance /\ ~(vpl_instance /\ codec_support.decode_h264)

\* the missing codec is needed
CodecNeeded ==
  \/ config.out_video_codec = "H264" /\ EncoderUnavailable
  \/ config.h264_input /\ DecoderUnavailable
  \/ config.h264_input /\ config.h264_decoder = "OneVPL"
       /\ ~(vpl_instance /\ codec_support.decode_h264)
  \/ config.h264_input /\ config.h264_decoder = "OpenH264" /\ ~openh264_instance

\* C29: a failure to open the OpenH264 library or the VPL session never ends
\* the program by itself; the run fails for a missing codec only when the
\* codec is needed (output codec H.264 with the requested, or if unspecified
\* any, encoder unavailable, or an H.264 input without decoder); with another
\* output codec and no H.264 input the composition proceeds.
C29_MissingCodecOnlyWhenNeeded ==
  /\ [](config # <<>> =>
          /\ codec_missing => CodecNeeded
          /\ main_pc = "compose_video_producer" /\ config.out_video_codec # "H264" =>
               VideoProducerFor(config, openh264_instance, vpl_instance,
                                codec_support) # "throws")
  /\ [][main_pc = "start" => main_pc' = "cli"]_vars
  /\ [][main_pc = "cli" /\ main_pc' = "exited" => ~openh264_instance']_vars

\* neither library could be opened, the layout asks for VP9 and has no H.264
\* input: the composition ran and ended with status 0
C29_Witness ==
  /\ config # <<>> /\ config.layout /\ config.USE_ONEVPL /\ config.openh264
  /\ opened = {} /\ config.out_video_codec = "VP9" /\ ~config.h264_input
  /\ ~config.audio_only
  /\ main_pc = "exited" /\ Happened("run_returned") /\ main_status = EXIT_SUCCESS

\* ======================================================================
\* Part 11: AsyncWebMMuxer::setUp and the Opus audio track
\* ======================================================================
MaxOpusSkip == 3
MaxAudioFrames == 3

\* hisui::Constants::PCM_SAMPLE_RATE
PCM_SAMPLE_RATE == 48000

\* the lookahead of an Opus encoder at 48 kHz (6.5 ms)
OpusLookahead == 312

\* the skips an encoder may report: small ones, the usual lookahead and its
\* neighbours, a second and more
OpusSkips ==
  (0..MaxOpusSkip) \cup {OpusLookahead + k : k \in 0..MaxOpusSkip}
    \cup {PCM_SAMPLE_RATE + k : k \in 0..MaxOpusSkip}

\* mutant: NANO_SECOND / PCM_SAMPLE_RATE is taken first, then times skip
CodecDelay_DivideFirst(skip) ==
  LET ns == skip * (NANO_SECOND \div PCM_SAMPLE_RATE)
  IN  <<ns \div NANO_SECOND, ns % NANO_SECOND>>

\* static_cast<uint64_t>(skip) * NANO_SECOND / PCM_SAMPLE_RATE as
\* <<seconds, nanoseconds>>; the 64-bit product does not overflow for a
\* 32-bit skip
CodecDelay(skip) ==
  <<skip \div PCM_SAMPLE_RATE,
    NanoFraction(skip % PCM_SAMPLE_RATE, PCM_SAMPLE_RATE)>>

\* create_opus_private_data({.skip = skip}): the pre-skip field of the
\* OpusHead, 16 bits, little endian
create_opus_private_data(skip) == <<skip % 256, (skip \div 256) % 256>>

WebMInit ==
  /\ awm_pc = "constructed" /\ awm_audio_only \in BOOLEAN
  /\ opus_skip = NoSkip /\ audio_tracks = <<>> /\ video_tracks = 0
  /\ audio_frames_added = 0

\* AsyncWebMMuxer::setUp(): the context, the video producer and its track,
\* the Opus audio producer and the audio track; an exception of the context
\* or of the video producer leaves before the audio track
WebMSetUp ==
  /\ awm_pc = "constructed"
  /\ \/ /\ awm_pc' = "failed"
        /\ UNCHANGED <<opus_skip, audio_tracks, video_tracks>>
     \/ \E skip \in OpusSkips :
          /\ awm_pc' = "ready"
          /\ video_tracks' = IF awm_audio_only THEN video_tracks ELSE video_tracks + 1
          /\ opus_skip' = skip
          /\ audio_tracks' =
               Append(audio_tracks, <<CodecDelay(skip), create_opus_private_data(skip)>>)
  /\ UNCHANGED <<awm_audio_only, audio_frames_added>>
  /\ UNCHANGED nonWebmVars

\* AsyncWebMMuxer::run(): mux() starts
WebMRun ==
  /\ awm_pc = "ready"
  /\ awm_pc' = "running"
  /\ UNCHANGED <<awm_audio_only, opus_skip, audio_tracks, video_tracks,
                 audio_frames_added>>
  /\ UNCHANGED nonWebmVars

\* AsyncWebMMuxer::appendAudio(), called by mux()
WebMAppendAudio ==
  /\ awm_pc = "running"
  /\ audio_frames_added < MaxAudioFrames
  /\ audio_frames_added' = audio_frames_added + 1
  /\ UNCHANGED <<awm_pc, awm_audio_only, opus_skip, audio_tracks, video_tracks>>
  /\ UNCHANGED nonWebmVars

\* mux() returns
WebMRunReturns ==
  /\ awm_pc = "running"
  /\ awm_pc' = "finished"
  /\ UNCHANGED <<awm_audio_only, opus_skip, audio_tracks, video_tracks,
                 audio_frames_added>>
  /\ UNCHANGED nonWebmVars

WebMNext == WebMSetUp \/ WebMRun \/ WebMAppendAudio \/ WebMRunReturns

WebMSpecInit == WebMInit /\ MuxIdle /\ LayoutIdle /\ EncodeIdle /\ DecoderIdle /\ SequencerIdle /\ MainIdle /\ ZSortIdle /\ CellApiIdle /\ AppendIdle /\ SessionIdle

WebMSpec == WebMSpecInit /\ [][WebMNext]_vars

\* floor(skip * 10^9 / 48000) = skip * 20833 + floor(skip / 3), because
\* 10^9 / 48000 = 62500 / 3 = 20833 + 1/3
FloorDelay(skip) == skip * 20833 + skip \div 3

\* the pre-skip that a reader finds in the private data
PreSkipOf(private_data) == private_data[1] + 256 * private_data[2]

\* C30: setUp() calls setAudioTrack exactly once, with codec_delay =
\* floor(skip * 10^9 / 48000) ns for the skip that the Opus audio producer
\* reports and with private data built from the same skip, before an audio
\* frame is appended.
C30_OpusPreSkip ==
  /\ Len(audio_tracks) = (IF awm_pc \in {"ready", "running", "finished"} THEN 1 ELSE 0)
  /\ \A i \in 1..Len(audio_tracks) :
       /\ opus_skip # NoSkip
       /\ audio_tracks[i][1][1] * NANO_SECOND + audio_tracks[i][1][2]
            = FloorDelay(opus_skip)
       /\ PreSkipOf(audio_tracks[i][2]) = opus_skip
  /\ audio_frames_added > 0 => Len(audio_tracks) = 1

\* an encoder with the usual lookahead: the track has a codec delay of
\* 6.5 ms and audio frames have been appended after it
C30_Witness ==
  /\ awm_pc = "finished" /\ opus_skip = OpusLookahead
  /\ Len(audio_tracks) = 1 /\ audio_tracks[1][1] = <<0, 6500000>>
  /\ audio_frames_added = MaxAudioFrames

\* ======================================================================
\* Part 12: Metadata::prepare(), the regions in z order
\* ======================================================================
MaxZRegions == 3
\* z_pos of a region lies in -MaxZ..MaxZ
MaxZ == 1

\* the regions of a layout file: the n-th key of "video_layout" with its z_pos
LayoutRegions ==
  UNION {[1..n -> [name : 1..MaxZRegions, z_pos : (0 - MaxZ)..MaxZ]] : n \in 0..MaxZRegions}

\* the keys of a JSON object are different: region n is called n
ParsedRegions == {rs \in LayoutRegions : \A i \in DOMAIN rs : rs[i].name = i}

\* mutant: the comparison is turned round
ZLess_Greater(a, b) == a.z_pos > b.z_pos

\* the comparison prepare() passes to std::sort
ZLess(a, b) == a.z_pos < b.z_pos

\* std::sort(begin, end, ZLess): a rearrangement in which no element is less
\* than one before it; the order of elements that compare equal is not
\* specified
SortedByZ(regions) ==
  {sorted \in {[i \in DOMAIN regions |-> regions[p[i]]] : p \in Permutations(DOMAIN regions)} :
     \A i, j \in DOMAIN sorted : i < j => ~ZLess(sorted[j], sorted[i])}

ZSortInit == layout_regions \in ParsedRegions /\ zsort_pc = "parsed"

\* Metadata::prepare(), lines 234-236
PrepareSortsRegions ==
  /\ zsort_pc = "parsed"
  /\ layout_regions' \in SortedByZ(layout_regions)
  /\ zsort_pc' = "prepared"
  /\ UNCHANGED nonZsortVars

ZSortNext == PrepareSortsRegions

ZSortSpecInit == ZSortInit /\ MuxIdle /\ LayoutIdle /\ EncodeIdle /\ DecoderIdle /\ SequencerIdle /\ MainIdle /\ WebMIdle /\ CellApiIdle /\ AppendIdle /\ SessionIdle

ZSortSpec == ZSortSpecInit /\ [][ZSortNext]_vars

\* C31: after prepare() the regions are in ascending z order: for i < j,
\* regions[i].z_pos <= regions[j].z_pos; they are the regions of the layout,
\* each once.
C31_RegionsInZOrder ==
  zsort_pc = "prepared" =>
    /\ \A i, j \in DOMAIN layout_regions :
         i < j => layout_regions[i].z_pos <= layout_regions[j].z_pos
    /\ \A n \in DOMAIN layout_regions :
         Cardinality({i \in DOMAIN layout_regions : layout_regions[i].name = n}) = 1

\* three regions of which the last of the file has the lowest z: it is first
\* after prepare()
C31_Witness ==
  /\ zsort_pc = "prepared" /\ Len(layout_regions) = 3
  /\ layout_regions[1].name = 3
  /\ layout_regions[1].z_pos < layout_regions[2].z_pos
  /\ layout_regions[2].z_pos < layout_regions[3].z_pos

\* ---- the version that --version prints
\* C32: get_hisui_version() returns "2024.1.1": that is what a run with
\* --version has printed.
C32_Version ==
  main_pc = "exited" /\ main_status = EXIT_SUCCESS /\ ~Happened("planner")
      /\ ~Happened("muxer") /\ events # <<>>
    => events = <<"2024.1.1">>

\* ======================================================================
\* Part 13: a Cell under any sequence of calls of its public functions
\* ======================================================================
MaxApiCells == 2
MaxApiTime == 2

\* the indices of the cells
ApiCellIndices == 0..(MaxApiCells - 1)

\* the source objects a caller can pass: one for each end of an encoding
\* interval that begins at 0 (a cell reads the upper bound only), named by
\* its index (never NoSource: the upper bound is above 0)
ApiSources ==
  {[index |-> upper, encoding_interval |-> <<0, upper>>] : upper \in 1..MaxApiTime}

\* m_source of a cell that holds one
ApiSourceOf(cell) == CHOOSE source \in ApiSources : source.index = cell.source

\* the times a caller can pass
ApiTimes == (0..MaxApiTime) \cup {EndTimeMax}

\* a call and its arguments
ApiCall(op, cell, source, time, cells) ==
  [op |-> op, cell |-> cell, source |-> source, time |-> time, cells |-> cells]

\* Cell::Cell() for every cell of a region: Idle, or Excluded where
\* cells_excluded lists the index
CellApiInit ==
  /\ \E cells_excluded \in SUBSET ApiCellIndices :
       api_cells = RegionCells(MaxApiCells, cells_excluded)
  /\ api_before = api_cells
  /\ api_call = ApiCall("Cell", 0, NoSource, 0, {})

\* cell->setSource(source)
ApiSetSource ==
  /\ api_call.op # "none"
  /\ \E i \in ApiCellIndices : \E source \in ApiSources :
       /\ api_cells' = [api_cells EXCEPT ![i] = setSource(@, source)]
       /\ api_call' = ApiCall("setSource", i, source.index, 0, {})
  /\ api_before' = api_cells
  /\ UNCHANGED nonCellapiVars

\* cell->resetSource(time)
ApiResetSource ==
  /\ api_call.op # "none"
  /\ \E i \in ApiCellIndices : \E time \in ApiTimes :
       /\ api_cells' = [api_cells EXCEPT ![i] = resetSource(@, time)]
       /\ api_call' = ApiCall("resetSource", i, NoSource, time, {})
  /\ api_before' = api_cells
  /\ UNCHANGED nonCellapiVars

\* cell->setExcludedStatus()
ApiSetExcludedStatus ==
  /\ api_call.op # "none"
  /\ \E i \in ApiCellIndices :
       /\ api_cells' = [api_cells EXCEPT ![i] = setExcludedStatus(@)]
       /\ api_call' = ApiCall("setExcludedStatus", i, NoSource, 0, {})
  /\ api_before' = api_cells
  /\ UNCHANGED nonCellapiVars

\* reset_cells_source({.cells, .time})
ApiResetCellsSource ==
  /\ api_call.op # "none"
  /\ \E cells \in SUBSET ApiCellIndices : \E time \in ApiTimes :
       /\ \E released \in {reset_cells_source([i \in cells |-> api_cells[i]], time)} :
            api_cells' = [i \in ApiCellIndices |->
                            IF i \in cells THEN released[i] ELSE api_cells[i]]
       /\ api_call' = ApiCall("reset_cells_source", 0, NoSource, time, cells)
  /\ api_before' = api_cells
  /\ UNCHANGED nonCellapiVars

CellApiNext ==
  \/ ApiSetSource
  \/ ApiResetSource
  \/ ApiSetExcludedStatus
  \/ ApiResetCellsSource

CellApiSpecInit == CellApiInit /\ MuxIdle /\ LayoutIdle /\ EncodeIdle /\ DecoderIdle /\ SequencerIdle /\ MainIdle /\ WebMIdle /\ ZSortIdle /\ AppendIdle /\ SessionIdle

CellApiSpec == CellApiSpecInit /\ [][CellApiNext]_vars

\* what resetSource(time) leaves of a cell
ReleasedOrKept(before, after, time) ==
  IF time >= before.end_time
    THEN after.status = "Idle" /\ after.source = NoSource
         /\ after.end_time = EndTimeMax /\ after.index = before.index
    ELSE after = before

\* C33: setSource(src) leaves the cell Used with source src and end_time
\* the upper bound of src's encoding interval; resetSource(t) leaves it
\* Idle without source and with end_time u64::MAX when t >= end_time, and
\* as it was when t < end_time; reset_cells_source does the same with one t
\* to every cell of its list; no call changes a cell it was not made on.
C33_CellTransitions ==
  /\ api_call.op = "setSource" =>
       /\ api_cells[api_call.cell].status = "Used"
       /\ api_cells[api_call.cell].source = api_call.source
       /\ api_cells[api_call.cell].end_time =
            ApiSourceOf(api_cells[api_call.cell]).encoding_interval[2]
       /\ \A i \in ApiCellIndices \ {api_call.cell} : api_cells[i] = api_before[i]
  /\ api_call.op = "resetSource" =>
       /\ ReleasedOrKept(api_before[api_call.cell], api_cells[api_call.cell],
                         api_call.time)
       /\ \A i \in ApiCellIndices \ {api_call.cell} : api_cells[i] = api_before[i]
  /\ api_call.op = "reset_cells_source" =>
       /\ \A i \in api_call.cells :
            ReleasedOrKept(api_before[i], api_cells[i], api_call.time)
       /\ \A i \in ApiCellIndices \ api_call.cells : api_cells[i] = api_before[i]

\* a source was set on a cell that showed another one until later; a
\* reset_cells_source released one cell of its list, kept another of the
\* list that still runs, and there are both kinds of resetSource
C33_Witness ==
  /\ api_call.op = "reset_cells_source"
  /\ api_call.cells = ApiCellIndices
  /\ api_before[0].status = "Used" /\ api_cells[0].status = "Idle"
  /\ api_before[1].status = "Used" /\ api_cells[1] = api_before[1]
  /\ api_before[0].end_time <= api_call.time
  /\ api_call.time < api_before[1].end_time

\* C34: in every state of a cell, status Idle implies no source and
\* end_time u64::MAX, status Used implies a source and end_time the upper
\* bound of its encoding interval, and a cell that holds a source is
\* neither Idle nor Excluded.
C34_CellInvariant ==
  \A i \in DOMAIN api_cells :
    /\ api_cells[i].status = "Idle" =>
         api_cells[i].source = NoSource /\ api_cells[i].end_time = EndTimeMax
    /\ api_cells[i].status = "Used" =>
         /\ api_cells[i].source # NoSource
         /\ api_cells[i].end_time = ApiSourceOf(api_cells[i]).encoding_interval[2]
    /\ api_cells[i].source # NoSource => api_cells[i].status \notin {"Idle", "Excluded"}

\* ======================================================================
\* Part 14: the timestamps of the frames an encoder pushes
\* ======================================================================
\* floor(k * 10^9 * den / num) from the quotient and remainder of
\* k * den by num and of 10^9 by num
ExactPts(k, fps) ==
  LET whole == (k * fps[2]) \div fps[1]
      rest == (k * fps[2]) % fps[1]
  IN  <<whole,
        rest * (NANO_SECOND \div fps[1]) + (rest * (NANO_SECOND % fps[1])) \div fps[1]>>

\* a pass of the loop pushed a frame
FramePushed == frames_out' = frames_out + 1

\* a pass of the loop gave an image to the encoder
ImageSubmitted == enc_t' # enc_t

\* C35: the timestamp of a pushed frame is floor(k * timescale * den / num)
\* for the index k of the image it was encoded from, counted over all
\* images submitted; an image for which the encoder emits nothing still
\* advances k; the pushed timestamps are strictly increasing in push order.
C35_TimestampByImageIndex ==
  /\ [][FramePushed =>
          /\ ImageSubmitted
          /\ last_pts' = ExactPts(m_frame, m_fps)
          /\ frames_out > 0 => TimeLess(last_pts, last_pts')]_vars
  /\ [][ImageSubmitted => m_frame' = m_frame + 1]_vars
  /\ [][m_frame' # m_frame => ImageSubmitted]_vars

\* the third image was pushed after one of the first two was skipped
C35_Witness ==
  /\ encode_pc = "loop"
  /\ m_fps = <<30, 1>>
  /\ m_frame = 3 /\ frames_out = 2
  /\ last_pts = <<0, 66666666>>

\* ======================================================================
\* Part 15: the video queue between producer and muxer
\* ======================================================================
\* the step pushes onto the video queue
VideoPushed == v_n' > v_n

\* the critical sections of produce() are the steps "outputImage" and
\* "flush, then m_is_finished = true"; the second leaves the producer at
\* "finished" with everything pushed
FinishedInFlushSection == v_n' = Len(v_src) /\ v_pc' = "finished"

\* C36 as stated: every push onto the video queue and every transition to
\* finished happen in a critical section of the buffer mutex, flush and
\* m_is_finished = true in the same one; once isFinished() holds no frame is
\* pushed any more and no flushed frame is missed.
C36_FinishedUnderMutex ==
  /\ [][VideoPushed => v_pc = "loop" /\ ~v_fin]_vars
  /\ [][(~v_fin /\ v_fin') => FinishedInFlushSection]_vars
  /\ [][isFinished(v_fin, v_buf) => ~VideoPushed]_vars

\* C36, amended: every push onto the video queue is made by the running
\* producer inside a critical section of the buffer mutex, before
\* m_is_finished is set; on normal completion the flush and
\* m_is_finished = true are one critical section (the catch handler sets
\* the flag outside of any); so once isFinished() holds (flag set, queue
\* empty) no frame is pushed any more, and a muxer that has seen a producer
\* finished that did not throw has been given every frame.
C36_NoPushAfterFinished ==
  /\ [][VideoPushed =>
          /\ v_pc = "loop" /\ ~v_fin
          /\ v_buf' = v_buf \o SubSeq(v_src, v_n + 1, v_n')]_vars
  /\ [][isFinished(v_fin, v_buf) => ~VideoPushed /\ v_buf' = <<>>]_vars
  /\ [][(~v_fin /\ v_fin' /\ v_pc' # "threw") => FinishedInFlushSection]_vars
  /\ [](video_finished /\ v_pc # "threw" => Appended("V") = v_src /\ v_buf = <<>>)

\* the muxer saw the video producer finished while audio was still queued,
\* after all MaxFrames video frames had gone to the container
C36_Witness ==
  /\ video_finished /\ pc = "L63"
  /\ v_pc \in {"finished", "returned"}
  /\ Len(v_src) = MaxFrames /\ Appended("V") = v_src
  /\ a_buf # <<>>

\* ======================================================================
\* Part 16: the frames a muxer takes from the producers' queues,
\* AsyncWebMMuxer::appendAudio / appendVideo and MP4Muxer::addAudioBuffer /
\* addVideoBuffer / writeTrackData
\* ======================================================================
MaxAppendFrames == 2
MaxChunkTicks == 2

\* the movie timescale of the MP4 writer: milliseconds
MvhdTimescale == 1000

\* m_chunk_interval: 960 ms with FDK-AAC audio, else 1000 ms
ChunkIntervals == {960, 1000}

Kinds == {"A", "V"}

\* getTimescale() of the sound and of the video track
TrackTimescale(kind) == IF kind = "A" THEN AudioTimescale ELSE VideoTimescale

\* the timestamps a producer gives its frames: whole seconds in the
\* timescale of the track
FrameTimestamps(kind) == {second * TrackTimescale(kind) : second \in 0..MaxChunkTicks}

\* frame.timestamp * m_writer->getMvhdTimescale() / track->getTimescale()
MovieTime(frame) == (frame.timestamp * MvhdTimescale) \div TrackTimescale(frame.kind)

\* the frames of all chunks of a track, in order
RECURSIVE Flatten(_)
Flatten(chunks) == IF chunks = <<>> THEN <<>> ELSE Head(chunks) \o Flatten(Tail(chunks))

\* addMdatData / addAudioFrame / addVideoFrame: the frame joins the open chunk
AddToTrack(chunks, frames) ==
  [chunks EXCEPT ![Len(chunks)] = @ \o frames]

\* terminateCurrentChunk(): the next frame opens a new chunk
TerminateCurrentChunk(chunks) == Append(chunks, <<>>)

\* mutant: the buffers are not cleared after they were written
writeTrackData_NotCleared(tracks, buffer, released) ==
  [tracks |-> [kind \in Kinds |->
                 TerminateCurrentChunk(AddToTrack(tracks[kind], buffer[kind]))],
   buffer |-> buffer,
   released |-> released \o buffer["A"] \o buffer["V"]]

\* MP4Muxer::writeTrackData(): every buffered audio frame is written and its
\* data deleted, the chunk closed and the buffer cleared; the same for video
writeTrackData(tracks, buffer, released) ==
  [tracks |-> [kind \in Kinds |->
                 TerminateCurrentChunk(AddToTrack(tracks[kind], buffer[kind]))],
   buffer |-> [kind \in Kinds |-> <<>>],
   released |-> released \o buffer["A"] \o buffer["V"]]

\* a muxer with its producers, nothing pushed yet
AppendInit ==
  /\ \/ ap_container = "WebM" /\ m_chunk_interval = 0
     \/ ap_container = "MP4" /\ m_chunk_interval \in ChunkIntervals
  /\ ap_pushed = [kind \in Kinds |-> <<>>]
  /\ ap_queue = [kind \in Kinds |-> <<>>]
  /\ ap_front = <<>>
  /\ ap_pc = "idle"
  /\ ap_tracks = [kind \in Kinds |-> <<<<>>>>]
  /\ ap_buffer = [kind \in Kinds |-> <<>>]
  /\ m_chunk_start = 0
  /\ ap_released = <<>>

\* a producer pushes a frame, under its buffer mutex, at any moment before
\* the muxer finalizes; the timestamps of a producer never go back
ApPush ==
  /\ ap_pc \notin {"none", "finalized"}
  /\ \E kind \in Kinds : \E timestamp \in FrameTimestamps(kind) :
       /\ Len(ap_pushed[kind]) < MaxAppendFrames
       /\ ap_pushed[kind] # <<>> =>
            ap_pushed[kind][Len(ap_pushed[kind])].timestamp <= timestamp
       /\ \E frame \in {[kind |-> kind, id |-> Len(ap_pushed[kind]) + 1,
                         timestamp |-> timestamp]} :
            /\ ap_pushed' = [ap_pushed EXCEPT ![kind] = Append(@, frame)]
            /\ ap_queue' = [ap_queue EXCEPT ![kind] = Append(@, frame)]
  /\ UNCHANGED <<ap_container, m_chunk_interval, ap_front, ap_pc, ap_tracks,
                 ap_buffer, m_chunk_start, ap_released>>
  /\ UNCHANGED nonAppendVars

\* mutant: the muxer is handed the newest frame of the queue
ApPeek_Newest ==
  /\ ap_pc = "idle"
  /\ \E kind \in Kinds :
       /\ ap_queue[kind] # <<>>
       /\ ap_front' = <<ap_queue[kind][Len(ap_queue[kind])]>>
  /\ ap_pc' = "peeked"
  /\ UNCHANGED <<ap_container, m_chunk_interval, ap_pushed, ap_queue, ap_tracks,
                 ap_buffer, m_chunk_start, ap_released>>
  /\ UNCHANGED nonAppendVars

\* mux(): bufferFront() of the kind that goes next returned a frame, which
\* is passed by value to appendAudio / appendVideo
ApPeek ==
  /\ ap_pc = "idle"
  /\ \E kind \in Kinds :
       /\ has_value(bufferFront(ap_queue[kind]))
       /\ ap_front' = bufferFront(ap_queue[kind])
  /\ ap_pc' = "peeked"
  /\ UNCHANGED <<ap_container, m_chunk_interval, ap_pushed, ap_queue, ap_tracks,
                 ap_buffer, m_chunk_start, ap_released>>
  /\ UNCHANGED nonAppendVars

\* AsyncWebMMuxer::appendAudio / appendVideo, first statement:
\* m_context->addAudioFrame / addVideoFrame
ApWebMWrite ==
  /\ ap_pc = "peeked" /\ ap_container = "WebM"
  /\ ap_tracks' = [ap_tracks EXCEPT ![value(ap_front).kind] = AddToTrack(@, ap_front)]
  /\ ap_pc' = "written"
  /\ UNCHANGED <<ap_container, m_chunk_interval, ap_pushed, ap_queue, ap_front,
                 ap_buffer, m_chunk_start, ap_released>>
  /\ UNCHANGED nonAppendVars

\* AsyncWebMMuxer::appendAudio / appendVideo, second statement:
\* delete[] frame.data
ApWebMRelease ==
  /\ ap_pc = "written"
  /\ ap_released' = Append(ap_released, value(ap_front))
  /\ ap_pc' = "released"
  /\ UNCHANGED <<ap_container, m_chunk_interval, ap_pushed, ap_queue, ap_front,
                 ap_tracks, ap_buffer, m_chunk_start>>
  /\ UNCHANGED nonAppendVars

\* mutant: the frame is buffered before the chunk is written
ApMP4AddBuffer_PushFirst ==
  /\ ap_pc = "peeked" /\ ap_container = "MP4"
  /\ \E frame \in {value(ap_front)} :
     \E buffered \in {[ap_buffer EXCEPT ![frame.kind] = Append(@, frame)]} :
       IF MovieTime(frame) >= m_chunk_start + m_chunk_interval
         THEN \E written \in {writeTrackData(ap_tracks, buffered, ap_released)} :
                /\ m_chunk_start' = m_chunk_start + m_chunk_interval
                /\ ap_tracks' = written.tracks
                /\ ap_released' = written.released
                /\ ap_buffer' = written.buffer
         ELSE /\ ap_buffer' = buffered
              /\ UNCHANGED <<m_chunk_start, ap_tracks, ap_released>>
  /\ ap_pc' = "buffered"
  /\ UNCHANGED <<ap_container, m_chunk_interval, ap_pushed, ap_queue, ap_front>>
  /\ UNCHANGED nonAppendVars

\* MP4Muxer::addAudioBuffer / addVideoBuffer up to push_back: a frame at or
\* after the end of the chunk moves m_chunk_start on and writes the buffers
ApMP4AddBuffer ==
  /\ ap_pc = "peeked" /\ ap_container = "MP4"
  /\ \E frame \in {value(ap_front)} :
       IF MovieTime(frame) >= m_chunk_start + m_chunk_interval
         THEN \E written \in {writeTrackData(ap_tracks, ap_buffer, ap_released)} :
                /\ m_chunk_start' = m_chunk_start + m_chunk_interval
                /\ ap_tracks' = written.tracks
                /\ ap_released' = written.released
                /\ ap_buffer' = [written.buffer EXCEPT ![frame.kind] = Append(@, frame)]
         ELSE /\ ap_buffer' = [ap_buffer EXCEPT ![frame.kind] = Append(@, frame)]
              /\ UNCHANGED <<m_chunk_start, ap_tracks, ap_released>>
  /\ ap_pc' = "buffered"
  /\ UNCHANGED <<ap_container, m_chunk_interval, ap_pushed, ap_queue, ap_front>>
  /\ UNCHANGED nonAppendVars

\* the last statement of appendAudio / appendVideo / addAudioBuffer /
\* addVideoBuffer: the producer's bufferPop()
ApPop ==
  /\ ap_pc \in {"released", "buffered"}
  /\ ap_queue' = [ap_queue EXCEPT ![value(ap_front).kind] = bufferPop(@)]
  /\ ap_front' = <<>>
  /\ ap_pc' = "idle"
  /\ UNCHANGED <<ap_container, m_chunk_interval, ap_pushed, ap_tracks, ap_buffer,
                 m_chunk_start, ap_released>>
  /\ UNCHANGED nonAppendVars

\* both producers are finished and drained: muxFinalize(), which for MP4
\* writes what is still buffered
ApMuxFinalize ==
  /\ ap_pc = "idle"
  /\ \A kind \in Kinds : ap_queue[kind] = <<>>
  /\ IF ap_container = "MP4"
       THEN \E written \in {writeTrackData(ap_tracks, ap_buffer, ap_released)} :
              /\ ap_tracks' = written.tracks
              /\ ap_released' = written.released
              /\ ap_buffer' = written.buffer
       ELSE UNCHANGED <<ap_tracks, ap_released, ap_buffer>>
  /\ ap_pc' = "finalized"
  /\ UNCHANGED <<ap_container, m_chunk_interval, ap_pushed, ap_queue, ap_front,
                 m_chunk_start>>
  /\ UNCHANGED nonAppendVars

AppendNext ==
  \/ ApPush
  \/ ApPeek
  \/ ApWebMWrite
  \/ ApWebMRelease
  \/ ApMP4AddBuffer
  \/ ApPop
  \/ ApMuxFinalize

AppendSpecInit == AppendInit /\ MuxIdle /\ LayoutIdle /\ EncodeIdle /\ DecoderIdle /\ SequencerIdle /\ MainIdle /\ WebMIdle /\ ZSortIdle /\ CellApiIdle /\ SessionIdle

AppendSpec == AppendSpecInit /\ [][AppendNext]_vars

\* the frames the container has of a kind
Written(kind) == Flatten(ap_tracks[kind])

\* how often a frame occurs in a sequence
Occurrences(frames, frame) == Cardinality({i \in DOMAIN frames : frames[i] = frame})

\* the muxer holds a copy of a frame it has not popped yet
HoldsFront == ap_pc \in {"peeked", "written", "released", "buffered"}

\* the frames of a kind that were popped from the producer's queue
Popped(kind) == SubSeq(ap_pushed[kind], 1, Len(ap_pushed[kind]) - Len(ap_queue[kind]))

\* C37: under any interleaving of pushes with the muxer, the frame bufferPop()
\* removes is the frame bufferFront() returned before and that was given to
\* the container; the data of a frame is released exactly once, after the
\* frame was written and never while it waits to be written.
C37_PopsWhatItWrote ==
  /\ [](HoldsFront => Head(ap_queue[value(ap_front).kind]) = value(ap_front))
  /\ [][\A kind \in Kinds : ap_queue'[kind] # ap_queue[kind] /\ Len(ap_pushed'[kind]) = Len(ap_pushed[kind]) =>
          /\ HoldsFront /\ ap_queue[kind] = <<value(ap_front)>> \o ap_queue'[kind]
          /\ Occurrences(Written(kind) \o ap_buffer[kind], value(ap_front)) = 1]_vars
  /\ [](\A i \in DOMAIN ap_released :
          /\ Occurrences(ap_released, ap_released[i]) = 1
          /\ Occurrences(Written(ap_released[i].kind), ap_released[i]) = 1
          /\ Occurrences(ap_buffer[ap_released[i].kind], ap_released[i]) = 0)
  /\ [](\A kind \in Kinds : \A i \in DOMAIN Popped(kind) :
          Occurrences(ap_released, Popped(kind)[i]) =
            IF Occurrences(ap_buffer[kind], Popped(kind)[i]) = 1 THEN 0 ELSE 1)

\* a WebM muxer has written and released the frame it peeked and is about
\* to pop it, while the producer has pushed the next frame behind it
C37_Witness ==
  /\ ap_container = "WebM" /\ ap_pc = "released"
  /\ ap_released[Len(ap_released)] = value(ap_front)
  /\ Len(ap_queue[value(ap_front).kind]) = 2
  /\ Len(ap_released) = 2

\* the frames of a kind handed to addAudioBuffer / addVideoBuffer so far
Added(kind) ==
  SubSeq(ap_pushed[kind], 1,
         Len(ap_pushed[kind]) - Len(ap_queue[kind])
           + (IF ap_pc = "buffered" /\ value(ap_front).kind = kind THEN 1 ELSE 0))

\* the step is an addAudioBuffer / addVideoBuffer
AddsBuffer == ap_container = "MP4" /\ ap_pc = "peeked" /\ ap_pc' = "buffered"

\* C38: the MP4 muxer writes the frames handed to addAudioBuffer /
\* addVideoBuffer to their track in the order they were added, each once; a
\* frame with a movie time >= chunk_start + chunk_interval first moves
\* chunk_start on by one chunk_interval and has every frame buffered before
\* written, so chunk_start is a multiple of chunk_interval and no frame is
\* written by the flush it triggers.
C38_ChunksInOrder ==
  /\ [](ap_container = "MP4" =>
          /\ \A kind \in Kinds : Written(kind) \o ap_buffer[kind] = Added(kind)
          /\ m_chunk_start % m_chunk_interval = 0
          /\ ap_pc = "finalized" =>
               \A kind \in Kinds : Written(kind) = ap_pushed[kind])
  /\ [][AddsBuffer =>
          IF MovieTime(value(ap_front)) >= m_chunk_start + m_chunk_interval
            THEN /\ m_chunk_start' = m_chunk_start + m_chunk_interval
                 /\ \A kind \in Kinds : Written(kind)' = Written(kind) \o ap_buffer[kind]
                 /\ \A kind \in Kinds :
                      ap_buffer'[kind] =
                        IF kind = value(ap_front).kind THEN ap_front ELSE <<>>
            ELSE /\ UNCHANGED <<m_chunk_start, ap_tracks>>
                 /\ ap_buffer' =
                      [ap_buffer EXCEPT ![value(ap_front).kind] = Append(@, value(ap_front))]]_vars
  /\ [][ap_container = "MP4" /\ ~AddsBuffer /\ ap_pc' # "finalized" =>
          UNCHANGED <<m_chunk_start, ap_tracks, ap_buffer>>]_vars

\* a frame two chunks ahead moved chunk_start on by one chunk only, and the
\* audio and video frames buffered before it were written
C38_Witness ==
  /\ ap_container = "MP4" /\ ap_pc = "buffered"
  /\ m_chunk_start = m_chunk_interval
  /\ MovieTime(value(ap_front)) >= 2 * m_chunk_interval
  /\ Written("A") # <<>> /\ Written("V") # <<>>
  /\ ap_buffer[value(ap_front).kind] = ap_front

\* ======================================================================
\* Part 17: the end states of a decoder
\* ======================================================================
\* what the decoder keeps between calls
DecoderMembers ==
  <<webm_position, m_current_timestamp, m_next_timestamp, m_current_yuv_image,
    m_next_yuv_image, m_finished_webm>>

\* the step is a getImage()
GetImageCalled == decoder_pc' = "returned"

\* C39: once getImage has been called with a time >= duration, every later
\* getImage returns the black frame whatever time is asked for; once
\* readFrame has returned false the decoder reads no more and next_timestamp
\* stays u64::MAX; between calls next_timestamp never decreases.
C39_EndStatesAbsorbing ==
  /\ [][(GetImageCalled /\ request' >= decoder_duration) =>
          m_is_time_over' /\ returned_image' = Black]_vars
  /\ [][m_is_time_over =>
          m_is_time_over' /\ returned_image' = Black /\ UNCHANGED DecoderMembers]_vars
  /\ [](m_finished_webm =>
          m_next_timestamp = EndTimeMax /\ webm_position = Len(webm_frames))
  /\ [][m_finished_webm => UNCHANGED DecoderMembers]_vars
  /\ [][m_next_timestamp' >= m_next_timestamp]_vars

\* a decoder that read its media to the end and then went over its duration
\* was asked for a time within the duration again: it answered black though
\* it holds a decoded picture
C39_Witness ==
  /\ decoder_pc = "returned"
  /\ m_is_time_over /\ m_finished_webm
  /\ request < decoder_duration
  /\ returned_image = Black /\ m_current_yuv_image # Black

\* ======================================================================
\* Part 18: VPLSession::open and VPLSession::close
\* ======================================================================
MaxSessionCalls == 4

\* the steps of open() that can fail, in order
OpenSteps ==
  <<"MFXLoad", "MFXCreateSession", "CreateDRMLibVA", "MFXVideoCORE_SetHandle",
    "MFXQueryIMPL", "MFXQueryVersion">>

\* the failures after which open() throws; after the others it warns and
\* returns
ThrowingSteps == {"MFXVideoCORE_SetHandle", "MFXQueryIMPL", "MFXQueryVersion"}

\* what can happen in one open(): no step fails, or one does
OpenFailures == {"none"} \cup {OpenSteps[i] : i \in DOMAIN OpenSteps}

\* VPLSession::hasInstance()
hasInstance == session_instance # {}

SessionCall(op, failed, session) ==
  [op |-> op, failed |-> failed, session |-> session,
   threw |-> failed \in ThrowingSteps, had_instance |-> hasInstance]

\* the program starts with m_instance = nullptr
SessionInit ==
  /\ session_instance = {}
  /\ session_deletes = <<>>
  /\ session_call = SessionCall("start", "none", 0)

\* mutant: the session is published before the two queries
VPLSessionOpen_PublishedEarly ==
  /\ Len(session_deletes) < MaxSessionCalls
  /\ \E failed \in OpenFailures : \E session \in {Len(session_deletes) + 1} :
       /\ session_call' = SessionCall("open", failed, session)
       /\ session_deletes' =
            Append(session_deletes, IF failed = "none" THEN 0 ELSE 1)
       /\ session_instance' =
            IF failed \in {"none", "MFXQueryIMPL", "MFXQueryVersion"}
              THEN {session} ELSE session_instance
  /\ UNCHANGED nonSessionVars

\* VPLSession::open(): a new VPLSession; the first step that fails deletes
\* it and ends the call; m_instance = session is the last statement
VPLSessionOpen ==
  /\ Len(session_deletes) < MaxSessionCalls
  /\ \E failed \in OpenFailures : \E session \in {Len(session_deletes) + 1} :
       /\ session_call' = SessionCall("open", failed, session)
       /\ session_deletes' =
            Append(session_deletes, IF failed = "none" THEN 0 ELSE 1)
       /\ session_instance' =
            IF failed = "none" THEN {session} ELSE session_instance
  /\ UNCHANGED nonSessionVars

\* VPLSession::close(): delete m_instance; m_instance = nullptr
VPLSessionClose ==
  /\ session_call.op \in {"start", "open"}
  /\ session_call' = SessionCall("close", "none", 0)
  /\ session_deletes' =
       [i \in DOMAIN session_deletes |->
          IF i \in session_instance THEN session_deletes[i] + 1
          ELSE session_deletes[i]]
  /\ session_instance' = {}
  /\ UNCHANGED nonSessionVars

SessionNext == VPLSessionOpen \/ VPLSessionClose

SessionSpecInit == SessionInit /\ MuxIdle /\ LayoutIdle /\ EncodeIdle /\ DecoderIdle /\ SequencerIdle /\ MainIdle /\ WebMIdle /\ ZSortIdle /\ CellApiIdle /\ AppendIdle

SessionSpec == SessionSpecInit /\ [][SessionNext]_vars

\* C40: after open() has returned or thrown, hasInstance() holds iff every
\* step succeeded (for a program without instance before the call); on a
\* failure the session under construction has been deleted exactly once and
\* hasInstance() is what it was; no session is deleted twice and the
\* published one is not deleted.
C40_PublishedOnlyWhenComplete ==
  /\ session_call.op = "open" =>
       /\ session_call.failed = "none" =>
            /\ session_instance = {session_call.session}
            /\ session_deletes[session_call.session] = 0
            /\ ~session_call.threw
       /\ session_call.failed # "none" =>
            /\ hasInstance = session_call.had_instance
            /\ session_call.session \notin session_instance
            /\ session_deletes[session_call.session] = 1
       /\ ~session_call.had_instance => (hasInstance <=> session_call.failed = "none")
  /\ \A i \in DOMAIN session_deletes :
       session_deletes[i] <= 1 /\ (i \in session_instance => session_deletes[i] = 0)

\* open() threw at the last step, MFXQueryVersion, in a program that had
\* opened and closed a session before: there is no instance and both
\* sessions have been deleted once
C40_Witness ==
  /\ session_call.op = "open" /\ session_call.failed = "MFXQueryVersion"
  /\ session_call.threw /\ ~session_call.had_instance
  /\ ~hasInstance
  /\ session_deletes = <<1, 1>>

====
